---- MODULE Spec2Model ----
(***************************************************************************)
(* ESG-Analytics dashboard: the record normalisation and aggregation       *)
(* pipeline of the analytics modules (spreadsheet upload and API load),    *)
(* modelled from the React components under src/.                          *)
(*                                                                         *)
(* One module of the dashboard is mounted at a time (ESGDashboard renders  *)
(* the component of activeModule).  The state is the mounted component's   *)
(* React state; the analytics of a component (useMemo) are operators of    *)
(* its data.                                                               *)
(***************************************************************************)
EXTENDS Integers, Sequences, FiniteSets, TLC

(***************************************************************************)
(* JavaScript values.  A value is a tagged record; a string is a sequence  *)
(* of tokens (a token is one character, or a word standing for a run of    *)
(* letters that is never split).  A number is the decimal n / 10^e, kept   *)
(* normalised (e = 0 or n not a multiple of 10).                           *)
(***************************************************************************)
Undef == [t |-> "undefined", s |-> <<>>, n |-> 0, e |-> 0]
Null == [t |-> "null", s |-> <<>>, n |-> 0, e |-> 0]
NaN == [t |-> "NaN", s |-> <<>>, n |-> 0, e |-> 0]
Str(s) == [t |-> "string", s |-> s, n |-> 0, e |-> 0]
Word(w) == Str(<<w>>)
Empty == Str(<<>>)
\* a boolean cell of a worksheet (true, false)
Bool(b) == [t |-> "boolean", s |-> <<>>, n |-> IF b THEN 1 ELSE 0, e |-> 0]

RECURSIVE Pow10(_)
Pow10(k) == IF k = 0 THEN 1 ELSE 10 * Pow10(k - 1)

RECURSIVE Dec(_, _)
Dec(n, e) ==
  IF e > 0 /\ n % 10 = 0 THEN Dec(n \div 10, e - 1)
  ELSE [t |-> "number", s |-> <<>>, n |-> n, e |-> e]

Num(n) == Dec(n, 0)
Zero == Num(0)

IsNumber(v) == v.t \in {"number", "NaN"}

\* JS truthiness: undefined, null, NaN, 0 and '' are falsy
Truthy(v) ==
  CASE v.t \in {"undefined", "null", "NaN"} -> FALSE
    [] v.t = "number" -> v.n # 0
    [] v.t = "string" -> v.s # <<>>
    [] v.t = "boolean" -> v.n # 0

\* a || b
Or(a, b) == IF Truthy(a) THEN a ELSE b

\* v == null (loose equality: null or undefined)
IsNullish(v) == v.t \in {"undefined", "null"}

\* obj[key] of a plain object: undefined when the property is absent
Get(obj, key) == IF key \in DOMAIN obj THEN obj[key] ELSE Undef

\* arr[i] with a 0-based index: undefined past the end
At(arr, i) == IF i + 1 \in DOMAIN arr THEN arr[i + 1] ELSE Undef

Digits == <<"0", "1", "2", "3", "4", "5", "6", "7", "8", "9">>
IsDigit(c) == \E d \in DOMAIN Digits : Digits[d] = c
DigitVal(c) == (CHOOSE d \in DOMAIN Digits : Digits[d] = c) - 1
Whitespace == {" "}

RECURSIVE NatToString(_)
NatToString(n) ==
  IF n < 10 THEN <<Digits[n + 1]>>
  ELSE Append(NatToString(n \div 10), Digits[(n % 10) + 1])

RECURSIVE FracDigits(_, _)
FracDigits(n, e) ==
  IF e = 0 THEN <<>>
  ELSE Append(FracDigits(n \div 10, e - 1), Digits[(n % 10) + 1])

\* Number.prototype.toString of a decimal
NumberToString(v) ==
  LET a == IF v.n < 0 THEN -v.n ELSE v.n
      p == Pow10(v.e)
      body == NatToString(a \div p) \o
              (IF v.e = 0 THEN <<>> ELSE <<".">> \o FracDigits(a % p, v.e))
  IN IF v.n < 0 THEN <<"-">> \o body ELSE body

\* String(v) / template-literal conversion
StringOf(v) ==
  CASE v.t = "string" -> v.s
    [] v.t = "number" -> NumberToString(v)
    [] v.t = "NaN" -> <<"NaN">>
    [] v.t = "null" -> <<"null">>
    [] v.t = "undefined" -> <<"undefined">>
    [] v.t = "boolean" -> IF v.n # 0 THEN <<"true">> ELSE <<"false">>

RECURSIVE TrimStart(_)
TrimStart(s) ==
  IF s # <<>> /\ Head(s) \in Whitespace THEN TrimStart(Tail(s)) ELSE s

RECURSIVE TrimEnd(_)
TrimEnd(s) ==
  IF s # <<>> /\ s[Len(s)] \in Whitespace THEN TrimEnd(SubSeq(s, 1, Len(s) - 1))
  ELSE s

\* String.prototype.trim
Trim(s) == TrimEnd(TrimStart(s))

\* the JS binary + on numbers (null counts as 0, a boolean as 0 or 1,
\* undefined and NaN give NaN); with a string operand it concatenates
Add(a, b) ==
  IF a.t = "string" \/ b.t = "string" THEN Str(StringOf(a) \o StringOf(b))
  ELSE IF a.t \in {"undefined", "NaN"} \/ b.t \in {"undefined", "NaN"} THEN NaN
  ELSE LET x == IF a.t \in {"null", "boolean"} THEN Num(a.n) ELSE a
           y == IF b.t \in {"null", "boolean"} THEN Num(b.n) ELSE b
           e == IF x.e > y.e THEN x.e ELSE y.e
       IN Dec(x.n * Pow10(e - x.e) + y.n * Pow10(e - y.e), e)

(***************************************************************************)
(* NumericCoercion: parseNumeric, one copy per module.                     *)
(***************************************************************************)
RECURSIVE TakeDigits(_)
TakeDigits(s) ==
  IF s # <<>> /\ IsDigit(Head(s)) THEN <<Head(s)>> \o TakeDigits(Tail(s))
  ELSE <<>>

RECURSIVE DigitsValue(_, _)
DigitsValue(ds, acc) ==
  IF ds = <<>> THEN acc ELSE DigitsValue(Tail(ds), acc * 10 + DigitVal(Head(ds)))

\* parseFloat: leading whitespace, an optional sign, digits, an optional
\* fraction; the longest such prefix, NaN when it has no digit
ParseFloat(str) ==
  LET s0 == TrimStart(str)
      neg == s0 # <<>> /\ Head(s0) = "-"
      s1 == IF s0 # <<>> /\ Head(s0) \in {"-", "+"} THEN Tail(s0) ELSE s0
      ip == TakeDigits(s1)
      r == SubSeq(s1, Len(ip) + 1, Len(s1))
      fp == IF r # <<>> /\ Head(r) = "." THEN TakeDigits(Tail(r)) ELSE <<>>
      m == DigitsValue(ip \o fp, 0)
  IN IF ip = <<>> /\ fp = <<>> THEN NaN
     ELSE Dec(IF neg THEN -m ELSE m, Len(fp))

\* String.prototype.replace(/[chars]/g, '')
StripChars(s, chars) == SelectSeq(s, LAMBDA c : c \notin chars)

FileModules == {"fugitive", "scope3", "diversity", "inclusion", "fairness", "openness"}
ScanModules == {"scope3", "diversity"}

\* the character class each module's parseNumeric removes (a currency glyph
\* is the token named after it; Openness lists the three characters of a
\* mis-encoded rupee sign)
StripSet(m) ==
  CASE m \in {"scope3", "fugitive", "diversity", "server"} ->
         {",", "rupee", "$", "euro", "pound", "yen"}
    [] m = "fairness" -> {",", "rupee", "$", "%"}
    [] m = "inclusion" -> {",", "rupee", "$", "euro", "pound"}
    [] m = "openness" -> {",", "a-circumflex", "low-9-quote", "superscript-1", "$", "%"}

\* the copies that parse only a value whose typeof is 'string' and return 0
\* for any other; the remaining copies convert the value to a string first
StringOnly == {"scope3", "fugitive", "server"}

\* every place parseNumeric is defined: the six upload modules and the
\* server's Excel reader
CoercionSites == FileModules \cup {"server"}

\* the mutant of parseNumeric: an unparsable value is passed through as NaN
parseNumericRaw(m, val) ==
  IF IsNullish(val) \/ val = Empty THEN Zero
  ELSE IF IsNumber(val) THEN val
  ELSE IF val.t # "string" /\ m \in StringOnly THEN Zero
  ELSE ParseFloat(Trim(StripChars(StringOf(val), StripSet(m))))

parseNumeric(m, val) ==
  IF IsNullish(val) \/ val = Empty THEN Zero
  ELSE IF IsNumber(val) THEN val
  ELSE IF val.t # "string" /\ m \in StringOnly THEN Zero
  ELSE LET parsed == ParseFloat(Trim(StripChars(StringOf(val), StripSet(m))))
       IN IF parsed = NaN THEN Zero ELSE parsed

(***************************************************************************)
(* FieldMapper: the per-module dictionaries, in Object.keys order.         *)
(***************************************************************************)
fieldMapping(m) ==
  CASE m = "scope3" -> <<
         <<"Sr.No.", "srNo">>, <<"BRSR ID", "brsrId">>,
         <<"Financial Year", "financialYear">>, <<"Business Code", "businessCode">>,
         <<"Plant", "plant">>, <<"Department", "department">>,
         <<"Attribute", "attribute">>, <<"Parameter", "parameter">>,
         <<"Sub Category", "subCategory">>, <<"Total Quantity", "totalQuantity">>,
         <<"Total EFFuel", "totalEFFuel">>, <<"Total Value", "totalValue">>,
         <<"Doc Status", "docStatus">>, <<"Pending With", "pendingWith">> >>
    [] m = "fairness" -> <<
         <<"Sr.No.", "srNo">>, <<"Sr No", "srNoAlt">>,
         <<"Objective Code", "objectiveCode">>, <<"Financial Year", "financialYear">>,
         <<"Month", "month">>, <<"Dim1", "dim1">>, <<"Dim2", "dim2">>,
         <<"Attribute", "attribute">>, <<"Start Date", "startDate">>,
         <<"End Date", "endDate">>, <<"Accounts Payable", "accountsPayable">>,
         <<"Customer Data Breach%", "customerDataBreachPct">>,
         <<"Actual Compliance Ind", "complianceInd">> >>
    [] m = "fugitive" -> <<
         <<"Sr.No.", "srNo">>, <<"Attribute Id", "attributeId">>,
         <<"Sr No", "srNoAlt">>, <<"Financial Year", "financialYear">>,
         <<"Month", "month">>, <<"Business Code", "businessCode">>,
         <<"Plant", "plant">>, <<"Department", "department">>,
         <<"Objective Code", "objectiveCode">>, <<"Attribute", "attribute">>,
         <<"Parameter", "parameter">>, <<"Sub Category", "subCategory">>,
         <<"Type", "type">>, <<"Quantity", "quantity">>,
         <<"Conv Factor", "convFactor">>, <<"Value", "value">>,
         <<"RIntensity", "rIntensity">>, <<"PPPIntensity", "pppIntensity">>,
         <<"Conv Standards", "convStandards">>, <<"Doc Status", "docStatus">>,
         <<"Pending With", "pendingWith">> >>
    [] m = "diversity" -> <<
         <<"Sr.No.", "srNo">>, <<"Sr No", "srNoAlt">>,
         <<"Objective Code", "objectiveCode">>, <<"Financial Year", "financialYear">>,
         <<"Month", "month">>, <<"Attribute", "attribute">>,
         <<"Dim1", "dim1">>, <<"Dim2", "dim2">>,
         <<"Emission Source", "emissionSource">>, <<"Start Date", "startDate">>,
         <<"End Date", "endDate">>, <<"Wages Paid To Females", "wagesFemales">>,
         <<"Wages Paid To Male", "wagesMales">>, <<"Total Complaints", "totalComplaints">>,
         <<"Complaints By Female Employee", "complaintsByFemale">>,
         <<"Complaints on POSH upheld", "poshUpheld">>,
         <<"Actual Compliance Ind", "complianceInd">> >>
    [] m = "inclusion" -> <<
         <<"Sr.No.", "srNo">>, <<"Asset Compliance Id", "assetComplianceId">>,
         <<"Remark Serial No", "remarkSerialNo">>, <<"Attribute", "attribute">>,
         <<"Objective Code", "objectiveCode">>, <<"Financial Year", "financialYear">>,
         <<"Month", "month">>, <<"Dim1", "dim1">>, <<"Dim2", "dim2">>,
         <<"Dim3", "dim3">>, <<"Actual Date", "actualDate">>,
         <<"Due Date", "dueDate">>, <<"Rural", "rural">>,
         <<"Semi Urban", "semiUrban">>, <<"Urban", "urban">>,
         <<"Metropolitan", "metropolitan">>, <<"MSMEPurchase", "msmePurchase">>,
         <<"Directlyfrom India", "directlyFromIndia">>,
         <<"Doc Status", "docStatus">>, <<"Pending With", "pendingWith">> >>
    [] m = "openness" -> <<
         <<"Sr.No.", "srNo">>, <<"Sr No", "srNoAlt">>,
         <<"Objective Code", "objectiveCode">>, <<"Financial Year", "financialYear">>,
         <<"Month", "month">>, <<"Dim1", "dim1">>, <<"Dim2", "dim2">>,
         <<"Attribute", "attribute">>, <<"Emission Source", "emissionSource">>,
         <<"Start Date", "startDate">>, <<"End Date", "endDate">>,
         <<"No of Trading Houses", "noTradingHouses">>,
         <<"% of Total Purchases", "percentTotalPurchases">>,
         <<"Top 10 % to TH", "top10PercentTH">>, <<"No of Dealers", "noDealers">>,
         <<"% of Total Salers", "percentTotalSalers">>,
         <<"Top 10 % to TH Sales", "top10PercentTHSales">>,
         <<"RPT Purchases", "rptPurchases">>, <<"RPT Sales", "rptSales">>,
         <<"RPT L & A", "rptLA">>, <<"RPT Investments", "rptInvestments">>,
         <<"Actual Compliance Ind", "actualCompliance">> >>

numericFields(m) ==
  CASE m = "scope3" -> {"totalQuantity", "totalEFFuel", "totalValue"}
    [] m = "fairness" -> {"accountsPayable", "customerDataBreachPct"}
    [] m = "fugitive" -> {"quantity", "convFactor", "value", "rIntensity", "pppIntensity"}
    [] m = "diversity" -> {"wagesFemales", "wagesMales", "totalComplaints",
                           "complaintsByFemale", "poshUpheld"}
    [] m = "inclusion" -> {"rural", "semiUrban", "urban", "metropolitan",
                           "msmePurchase", "directlyFromIndia"}
    [] m = "openness" -> {"noTradingHouses", "percentTotalPurchases", "top10PercentTH",
                          "noDealers", "percentTotalSalers", "top10PercentTHSales",
                          "rptPurchases", "rptSales", "rptLA", "rptInvestments"}

\* Object.keys(fieldMapping): the raw header labels
Labels(m) == {fieldMapping(m)[i][1] : i \in DOMAIN fieldMapping(m)}

\* the dictionaries as lookup tables, label to canonical key
LabelKeys ==
  [m \in FileModules |->
     [label \in Labels(m) |->
        LET i == CHOOSE j \in DOMAIN fieldMapping(m) : fieldMapping(m)[j][1] = label
        IN fieldMapping(m)[i][2]]]

NoKey == ""

\* fieldMapping[h]: the canonical key of a header cell, NoKey when the lookup
\* is undefined (exact match of the whole string, case-sensitive)
mapHeader(m, h) ==
  IF h.t = "string" /\ Len(h.s) = 1 /\ h.s[1] \in DOMAIN LabelKeys[m]
  THEN LabelKeys[m][h.s[1]]
  ELSE NoKey

\* obj[key] = val
Put(obj, key, val) ==
  [k \in DOMAIN obj \cup {key} |-> IF k = key THEN val ELSE obj[k]]

EmptyObject == [k \in {} |-> Undef]

(***************************************************************************)
(* TabularRecordLoader, file-sourced mode: the body of reader.onload of    *)
(* each upload handler, as a function of the grid sheet_to_json returns    *)
(* (rows are arrays; a blank row is an empty array).  The result is what   *)
(* the try block ends with: the records to store, or the error thrown.     *)
(***************************************************************************)
ScanLimit == 10
HeaderIndex == 4
MinRowsScan == 2
MinRowsFixed == 6

Loaded(records) == [ok |-> TRUE, data |-> records, error |-> ""]
Thrown(msg) == [ok |-> FALSE, data |-> <<>>, error |-> msg]

\* the errors of the try block (Scope 3's message texts; the other modules
\* word theirs differently)
ErrTooShort == "Excel must contain header and data rows"
ErrNoHeader == "Header row not found with expected columns"
ErrNoData == "No valid data found"
ErrTypeError == "TypeError"

Min(a, b) == IF a < b THEN a ELSE b

\* rows.slice(from - 1): the slice that starts one row early
SliceFromHeader(rows, from) == SubSeq(rows, from, Len(rows))

\* rows.slice(from), from 0-based
Slice(rows, from) == SubSeq(rows, from + 1, Len(rows))

\* Array.prototype.includes
Includes(row, v) == \E i \in DOMAIN row : row[i] = v

\* the filter without the test for the empty string
isNonNull(row) == \E i \in DOMAIN row : ~IsNullish(row[i])

\* the blank-row filter: row.some(cell => cell !== null && cell !== undefined
\* && cell !== '')
isNonBlank(row) == \E i \in DOMAIN row : ~IsNullish(row[i]) /\ row[i] # Empty

\* the header test with some in place of every
hasSomeCol(m, row) == \E col \in DOMAIN LabelKeys[m] : Includes(row, Word(col))

\* Object.keys(fieldMapping).every(col => row.includes(col))
hasAllCols(m, row) == \A col \in DOMAIN LabelKeys[m] : Includes(row, Word(col))

\* the scan without its break: the last matching row of the window
findHeaderLast(m, rows, i) ==
  LET hits == {j \in i..(Min(ScanLimit, Len(rows)) - 1) : hasAllCols(m, rows[j + 1])}
  IN IF hits = {} THEN -1 ELSE CHOOSE j \in hits : \A k \in hits : k <= j

\* the header scan of the scan-for-match modules: the loop from i on,
\* -1 when it ends without a match
RECURSIVE findHeader(_, _, _)
findHeader(m, rows, i) ==
  IF i < Min(ScanLimit, Len(rows))
  THEN IF hasAllCols(m, rows[i + 1]) THEN i ELSE findHeader(m, rows, i + 1)
  ELSE -1

\* val ? val.toString().trim() : ''   (Scope 3, Diversity, Fugitive)
textIfTruthy(val) == IF Truthy(val) THEN Str(Trim(StringOf(val))) ELSE Empty

\* val != null ? val.toString().trim() : ''   (Fairness, Inclusion, Openness)
textIfPresent(val) == IF ~IsNullish(val) THEN Str(Trim(StringOf(val))) ELSE Empty

\* headers.forEach((h, idx) => { if (fieldMapping[h]) mapped[key] = ... })
\* from column idx on (Scope 3, Diversity, Fugitive)
RECURSIVE mapRowByHeaders(_, _, _, _, _)
mapRowByHeaders(m, headers, row, idx, mapped) ==
  IF idx >= Len(headers) THEN mapped
  ELSE LET h == headers[idx + 1]
           key == mapHeader(m, h)
           val == At(row, idx)
           next ==
             IF Truthy(h) /\ key # NoKey
             THEN Put(mapped, key,
                      IF key \in numericFields(m) THEN parseNumeric(m, val)
                      ELSE textIfTruthy(val))
             ELSE mapped
       IN mapRowByHeaders(m, headers, row, idx + 1, next)

\* the column of every key taken from the key's place in the dictionary
\* instead of the header row
colIndexMapFixed(m, headerRow, idx, acc) ==
  [key \in {fieldMapping(m)[i][2] : i \in DOMAIN fieldMapping(m)} |->
     (CHOOSE i \in DOMAIN fieldMapping(m) : fieldMapping(m)[i][2] = key) - 1]

\* headerRow.forEach((h, idx) => { if (fieldMapping[h]) colIndexMap[key] = idx })
\* from column idx on (Fairness, Inclusion, Openness)
RECURSIVE colIndexMap(_, _, _, _)
colIndexMap(m, headerRow, idx, acc) ==
  IF idx >= Len(headerRow) THEN acc
  ELSE LET key == mapHeader(m, headerRow[idx + 1])
       IN colIndexMap(m, headerRow, idx + 1,
                      IF key # NoKey THEN Put(acc, key, idx) ELSE acc)

\* for (const [field, idx] of Object.entries(colIndexMap)) mapped[field] = ...
mapRowByIndex(m, cim, row) ==
  [field \in DOMAIN cim |->
     IF field \in numericFields(m) THEN parseNumeric(m, At(row, cim[field]))
     ELSE textIfPresent(At(row, cim[field]))]

\* obj.monthYear = obj.month + ' ' + obj.financialYear   (Inclusion, Openness)
withMonthYear(obj) ==
  Put(obj, "monthYear",
      Add(Add(Get(obj, "month"), Word(" ")), Get(obj, "financialYear")))

\* the scan-for-match loader without its final check that rows were kept
ScanOnloadKeepingEmpty(m, rows) ==
  IF Len(rows) < MinRowsScan THEN Thrown(ErrTooShort)
  ELSE LET headerIndex == findHeader(m, rows, 0)
       IN IF headerIndex = -1 THEN Thrown(ErrNoHeader)
          ELSE LET headers == rows[headerIndex + 1]
                   dataRows == Slice(rows, headerIndex + 1)
                   kept == SelectSeq(dataRows, isNonBlank)
               IN Loaded([i \in DOMAIN kept |->
                            mapRowByHeaders(m, headers, kept[i], 0, EmptyObject)])

\* Scope 3 and Diversity: scan-for-match
ScanOnload(m, rows) ==
  IF Len(rows) < MinRowsScan THEN Thrown(ErrTooShort)
  ELSE LET headerIndex == findHeader(m, rows, 0)
       IN IF headerIndex = -1 THEN Thrown(ErrNoHeader)
          ELSE LET headers == rows[headerIndex + 1]
                   dataRows == Slice(rows, headerIndex + 1)
                   kept == SelectSeq(dataRows, isNonBlank)
                   MapRow(row) == mapRowByHeaders(m, headers, row, 0, EmptyObject)
                   processedData == [i \in DOMAIN kept |-> MapRow(kept[i])]
               IN IF Len(processedData) = 0 THEN Thrown(ErrNoData)
                  ELSE Loaded(processedData)

\* Fugitive: header at row index 4, columns mapped through the header row
FugitiveOnload(rows) ==
  IF Len(rows) < MinRowsFixed THEN Thrown(ErrTooShort)
  ELSE LET headers == rows[HeaderIndex + 1]
           dataRows == Slice(rows, HeaderIndex + 1)
           kept == SelectSeq(dataRows, isNonBlank)
           MapRow(row) == mapRowByHeaders("fugitive", headers, row, 0, EmptyObject)
           processedData == [i \in DOMAIN kept |-> MapRow(kept[i])]
       IN IF Len(processedData) = 0 THEN Thrown(ErrNoData)
          ELSE Loaded(processedData)

\* the loader that counts the rows from 1: header the 4th row, data after it
FairnessOnloadOneBased(rows) ==
  IF Len(rows) < MinRowsFixed THEN Thrown(ErrTooShort)
  ELSE LET headerRow == rows[HeaderIndex]
           dataRows == Slice(rows, HeaderIndex)
           cim == colIndexMap("fairness", headerRow, 0, EmptyObject)
           kept == SelectSeq(dataRows, isNonBlank)
           processed == [i \in DOMAIN kept |-> mapRowByIndex("fairness", cim, kept[i])]
       IN IF Len(processed) = 0 THEN Thrown(ErrNoData)
          ELSE Loaded(processed)

\* Fairness: header at row index 4, columns mapped through colIndexMap
FairnessOnload(rows) ==
  IF Len(rows) < MinRowsFixed THEN Thrown(ErrTooShort)
  ELSE LET headerRow == rows[HeaderIndex + 1]
           dataRows == Slice(rows, HeaderIndex + 1)
           cim == colIndexMap("fairness", headerRow, 0, EmptyObject)
           kept == SelectSeq(dataRows, isNonBlank)
           MapRow(row) == mapRowByIndex("fairness", cim, row)
           processed == [i \in DOMAIN kept |-> MapRow(kept[i])]
       IN IF Len(processed) = 0 THEN Thrown(ErrNoData)
          ELSE Loaded(processed)

\* Inclusion and Openness: no length check, rawRows[4] may be undefined and
\* headerRow.forEach then throws a TypeError; monthYear is added to each record
MonthYearOnload(m, rawRows) ==
  IF Len(rawRows) <= HeaderIndex THEN Thrown(ErrTypeError)
  ELSE LET headerRow == rawRows[HeaderIndex + 1]
           dataRows == Slice(rawRows, HeaderIndex + 1)
           cim == colIndexMap(m, headerRow, 0, EmptyObject)
           kept == SelectSeq(dataRows, isNonBlank)
           MapRow(row) == withMonthYear(mapRowByIndex(m, cim, row))
           parsed == [i \in DOMAIN kept |-> MapRow(kept[i])]
       IN IF Len(parsed) = 0 THEN Thrown(ErrNoData)
          ELSE Loaded(parsed)

\* the try block of reader.onload of module m
onload(m, rows) ==
  CASE m \in ScanModules -> ScanOnload(m, rows)
    [] m = "fugitive" -> FugitiveOnload(rows)
    [] m = "fairness" -> FairnessOnload(rows)
    [] m \in {"inclusion", "openness"} -> MonthYearOnload(m, rows)

(***************************************************************************)
(* Aggregator.  Every module folds its records into a Map keyed by the     *)
(* grouping key: a key not yet in the Map gets a zero entry appended       *)
(* (Map iteration order is insertion order), then the entry of the key     *)
(* accumulates the record.  GroupFold is that loop: keys[i] is the key of  *)
(* record i and contribs[i] what the record adds to each running sum.      *)
(***************************************************************************)
Unknown == Word("Unknown")

\* map.has(k) that looks at the most recently added entry only
HasKeyLast(groups, k) == groups # <<>> /\ groups[Len(groups)].key = k

\* map.has(k)
HasKey(groups, k) == \E j \in DOMAIN groups : groups[j].key = k
\* the position of map.get(k)
KeyIndex(groups, k) == CHOOSE j \in DOMAIN groups : groups[j].key = k

\* the callback with count++ reached only when the entry already existed
AccumulateCountOnRepeat(acc, k, contrib) ==
  LET had == HasKey(acc, k)
      acc1 == IF had THEN acc
              ELSE Append(acc, [key |-> k,
                                sums |-> [f \in DOMAIN contrib |-> Zero],
                                count |-> 0])
      j == KeyIndex(acc1, k)
      agg == acc1[j]
  IN [acc1 EXCEPT ![j] =
        [key |-> k,
         sums |-> [f \in DOMAIN agg.sums |-> Add(agg.sums[f], contrib[f])],
         count |-> IF had THEN agg.count + 1 ELSE agg.count]]

\* the callback with = in place of +=
AccumulateOverwrite(acc, k, contrib) ==
  LET acc1 == IF HasKey(acc, k) THEN acc
              ELSE Append(acc, [key |-> k,
                                sums |-> [f \in DOMAIN contrib |-> Zero],
                                count |-> 0])
      j == KeyIndex(acc1, k)
      agg == acc1[j]
  IN [acc1 EXCEPT ![j] =
        [key |-> k,
         sums |-> [f \in DOMAIN agg.sums |-> contrib[f]],
         count |-> agg.count + 1]]

\* the body of the forEach callback: the entry of key k takes in one record
Accumulate(acc, k, contrib) ==
  LET acc1 == IF HasKey(acc, k) THEN acc
              ELSE Append(acc, [key |-> k,
                                sums |-> [f \in DOMAIN contrib |-> Zero],
                                count |-> 0])
      j == KeyIndex(acc1, k)
      agg == acc1[j]
  IN [acc1 EXCEPT ![j] =
        [key |-> k,
         sums |-> [f \in DOMAIN agg.sums |-> Add(agg.sums[f], contrib[f])],
         count |-> agg.count + 1]]

RECURSIVE GroupFold(_, _, _, _)
GroupFold(keys, contribs, i, acc) ==
  IF i > Len(keys) THEN acc
  ELSE GroupFold(keys, contribs, i + 1, Accumulate(acc, keys[i], contribs[i]))

\* records.reduce((sum, d) => sum + F(d), 0)
RECURSIVE SumFrom(_, _, _)
SumFrom(terms, i, sum) ==
  IF i > Len(terms) THEN sum ELSE SumFrom(terms, i + 1, Add(sum, terms[i]))

\* a * b on numbers
Mul(a, b) == Dec(a.n * b.n, a.e + b.e)

\* d[field] || 0
OrZero(d, field) == Or(Get(d, field), Zero)
\* d[field] || 'Unknown'
OrUnknown(d, field) == Or(Get(d, field), Unknown)

\* ---- Energy ----
\* the JS binary * on the values of a JSON record: null counts as 0, a
\* boolean as 0 or 1, a missing operand (undefined) and NaN give NaN
Times(a, b) ==
  IF a.t \in {"undefined", "NaN", "string"} \/ b.t \in {"undefined", "NaN", "string"}
  THEN NaN
  ELSE Mul(IF a.t = "number" THEN a ELSE Num(a.n), IF b.t = "number" THEN b ELSE Num(b.n))

\* one element of dbData.map(...) in loadDataFromDatabase of Energy
format(item) ==
  [ plant |-> OrUnknown(item, "plant"),
    department |-> OrUnknown(item, "department"),
    businessCode |-> Or(Get(item, "businessCode"), Empty),
    attribute |-> Or(Get(item, "attribute"), Empty),
    parameter |-> Or(Get(item, "parameter"), Empty),
    type |-> OrUnknown(item, "type"),
    month |-> OrUnknown(item, "month"),
    quantity |-> OrZero(item, "quantity"),
    convFactor |-> OrZero(item, "convFactor"),
    value |-> Or(Or(Get(item, "value"),
                    Times(Get(item, "quantity"), Get(item, "convFactor"))),
                 Zero) ]

\* what a module stores of the array its endpoint answered with: Energy
\* its normalised records, the others the array itself
formatted(m, dbData) ==
  IF m = "energy" THEN [i \in DOMAIN dbData |-> format(dbData[i])] ELSE dbData

\* ---- Water ----
\* one of the three groupings (parameter, subCategory, plant) of analytics
WaterGroupBy(waterData, field) ==
  LET groups ==
        GroupFold([i \in DOMAIN waterData |-> OrUnknown(waterData[i], field)],
                  [i \in DOMAIN waterData |->
                     [totalQuantity |-> OrZero(waterData[i], "quantity"),
                      totalValue |-> OrZero(waterData[i], "value")]],
                  1, <<>>)
  IN [j \in DOMAIN groups |->
        [key |-> groups[j].key,
         totalQuantity |-> groups[j].sums.totalQuantity,
         totalValue |-> groups[j].sums.totalValue,
         count |-> groups[j].count]]

WaterAnalytics(waterData) ==
  IF Len(waterData) = 0
  THEN [totalQuantity |-> Zero, totalValue |-> Zero, byParameter |-> <<>>,
        bySubCategory |-> <<>>, byPlant |-> <<>>]
  ELSE [totalQuantity |->
          SumFrom([i \in DOMAIN waterData |-> OrZero(waterData[i], "quantity")], 1, Zero),
        totalValue |->
          SumFrom([i \in DOMAIN waterData |-> OrZero(waterData[i], "value")], 1, Zero),
        byParameter |-> WaterGroupBy(waterData, "parameter"),
        bySubCategory |-> WaterGroupBy(waterData, "subCategory"),
        byPlant |-> WaterGroupBy(waterData, "plant")]

\* ---- Electricity ----
\* co2Emissions: (d.quantity || 0) * (d.convFactor || 0)
co2Emissions(d) == Mul(OrZero(d, "quantity"), OrZero(d, "convFactor"))

aggregateBy(records, key) ==
  LET groups ==
        GroupFold([i \in DOMAIN records |-> OrUnknown(records[i], key)],
                  [i \in DOMAIN records |->
                     [totalQuantity |-> OrZero(records[i], "quantity"),
                      totalCO2 |-> Or(co2Emissions(records[i]), Zero)]],
                  1, <<>>)
  IN [j \in DOMAIN groups |->
        [category |-> groups[j].key,
         totalQuantity |-> groups[j].sums.totalQuantity,
         totalCO2 |-> groups[j].sums.totalCO2,
         count |-> groups[j].count]]

\* the monthly trend: the key of a record without month is 'N/A'
byMonth(records) ==
  LET groups ==
        GroupFold([i \in DOMAIN records |-> Or(Get(records[i], "month"), Word("N/A"))],
                  [i \in DOMAIN records |->
                     [totalQuantity |-> OrZero(records[i], "quantity"),
                      totalCO2 |-> Or(co2Emissions(records[i]), Zero)]],
                  1, <<>>)
  IN [j \in DOMAIN groups |->
        [month |-> groups[j].key,
         totalQuantity |-> groups[j].sums.totalQuantity,
         totalCO2 |-> groups[j].sums.totalCO2]]

ElectricityAnalytics(records) ==
  IF Len(records) = 0
  THEN [plant |-> <<>>, department |-> <<>>, subCategory |-> <<>>, type |-> <<>>,
        byMonth |-> <<>>]
  ELSE [plant |-> aggregateBy(records, "plant"),
        department |-> aggregateBy(records, "department"),
        subCategory |-> aggregateBy(records, "subCategory"),
        type |-> aggregateBy(records, "type"),
        byMonth |-> byMonth(records)]

\* ---- quotients ----
RECURSIVE GCD(_, _)
GCD(a, b) == IF b = 0 THEN a ELSE GCD(b, a % b)
Abs(x) == IF x < 0 THEN -x ELSE x

\* the fraction p / q (q > 0) in lowest terms
Rat(p, q) ==
  LET g == GCD(Abs(p), q) IN [p |-> p \div g, q |-> q \div g]

\* sum / count of a number and a positive integer
Quot(sum, count) == Rat(sum.n, Pow10(sum.e) * count)

\* v.count ? sum / v.count : 0
Average(sum, count) == IF count # 0 THEN Quot(sum, count) ELSE Rat(0, 1)

\* ---- Attribute Details, Fugitive ----
\* aggregateByCategory(catKey) of Attribute Details
aggregateByCategory(records, catKey) ==
  LET groups ==
        GroupFold([i \in DOMAIN records |-> OrUnknown(records[i], catKey)],
                  [i \in DOMAIN records |->
                     [totalQuantity |-> OrZero(records[i], "quantity"),
                      totalValue |-> OrZero(records[i], "value"),
                      avgConvFactor |-> OrZero(records[i], "convFactor"),
                      avgCfStd |-> OrZero(records[i], "cfStd")]],
                  1, <<>>)
  IN [j \in DOMAIN groups |->
        [category |-> groups[j].key,
         totalQuantity |-> groups[j].sums.totalQuantity,
         totalValue |-> groups[j].sums.totalValue,
         avgConvFactor |-> Average(groups[j].sums.avgConvFactor, groups[j].count),
         avgCfStd |-> Average(groups[j].sums.avgCfStd, groups[j].count)]]

\* aggregate(key) of Fugitive
aggregate(records, key) ==
  LET groups ==
        GroupFold([i \in DOMAIN records |-> OrUnknown(records[i], key)],
                  [i \in DOMAIN records |->
                     [totalQuantity |-> OrZero(records[i], "quantity"),
                      totalValue |-> OrZero(records[i], "value"),
                      convFactorSum |-> OrZero(records[i], "convFactor"),
                      rIntensitySum |-> OrZero(records[i], "rIntensity"),
                      pppIntensitySum |-> OrZero(records[i], "pppIntensity")]],
                  1, <<>>)
  IN [j \in DOMAIN groups |->
        [category |-> groups[j].key,
         totalQuantity |-> groups[j].sums.totalQuantity,
         totalValue |-> groups[j].sums.totalValue,
         avgConvFactor |-> Average(groups[j].sums.convFactorSum, groups[j].count),
         avgRIntensity |-> Average(groups[j].sums.rIntensitySum, groups[j].count),
         avgPPPIntensity |-> Average(groups[j].sums.pppIntensitySum, groups[j].count)]]

\* a template literal `${a} ${b}`
Joined(a, b) == Str(StringOf(a) \o <<" ">> \o StringOf(b))

\* the monthly trends of Fugitive, keyed by month, year and type
FugitiveMonthlyTrends(records) ==
  LET groups ==
        GroupFold([i \in DOMAIN records |->
                     Joined(Joined(OrUnknown(records[i], "month"),
                                   OrUnknown(records[i], "financialYear")),
                            OrUnknown(records[i], "type"))],
                  [i \in DOMAIN records |->
                     [totalQuantity |-> OrZero(records[i], "quantity"),
                      totalValue |-> OrZero(records[i], "value")]],
                  1, <<>>)
  IN [j \in DOMAIN groups |->
        [monthYearType |-> groups[j].key,
         totalQuantity |-> groups[j].sums.totalQuantity,
         totalValue |-> groups[j].sums.totalValue]]

\* ---- Scope 3 ----
\* one of the three Maps of analytics: mapSub, mapYear, mapDept
Scope3GroupBy(data_, field, default) ==
  LET groups ==
        GroupFold([i \in DOMAIN data_ |-> Or(Get(data_[i], field), default)],
                  [i \in DOMAIN data_ |->
                     [totalQuantity |-> OrZero(data_[i], "totalQuantity"),
                      totalEFFuel |-> OrZero(data_[i], "totalEFFuel"),
                      totalValue |-> OrZero(data_[i], "totalValue")]],
                  1, <<>>)
  IN [j \in DOMAIN groups |->
        [key |-> groups[j].key,
         totalQuantity |-> groups[j].sums.totalQuantity,
         totalEFFuel |-> groups[j].sums.totalEFFuel,
         totalValue |-> groups[j].sums.totalValue]]

\* x > 0
Positive(x) == x.t = "number" /\ x.n > 0

\* x < y on numbers (false when either is NaN)
Less(x, y) ==
  x.t = "number" /\ y.t = "number" /\ x.n * Pow10(y.e) < y.n * Pow10(x.e)

\* the insertion that puts g in front of the entries it ties with
InsertDescBeforeTies(sorted, g, field) ==
  LET k == Cardinality({i \in DOMAIN sorted : Less(g[field], sorted[i][field])})
  IN SubSeq(sorted, 1, k) \o <<g>> \o SubSeq(sorted, k + 1, Len(sorted))

\* g takes its place in a descending array: behind every entry the
\* comparator does not put after it (b[field] - a[field] <= 0)
InsertDesc(sorted, g, field) ==
  LET k == Cardinality({i \in DOMAIN sorted : ~Less(sorted[i][field], g[field])})
  IN SubSeq(sorted, 1, k) \o <<g>> \o SubSeq(sorted, k + 1, Len(sorted))

\* arr.sort((a, b) => b[field] - a[field]): descending, and stable as
\* Array.prototype.sort is (ECMAScript 2019)
RECURSIVE SortDesc(_, _)
SortDesc(arr, field) ==
  IF arr = <<>> THEN <<>>
  ELSE InsertDesc(SortDesc(SubSeq(arr, 1, Len(arr) - 1), field), arr[Len(arr)], field)

\* arr.slice(0, end + 1): the cut one entry late
SliceToInclusive(arr, end) == SubSeq(arr, 1, Min(end + 1, Len(arr)))

\* arr.slice(0, end)
SliceTo(arr, end) == SubSeq(arr, 1, Min(end, Len(arr)))

\* the sizes of the two top-N views
TopContributors == 5
TopCategories == 20

\* x / y of two numbers, y # 0, as a fraction in lowest terms
Div(x, y) ==
  LET p == x.n * Pow10(y.e)
      q == y.n * Pow10(x.e)
  IN IF q < 0 THEN Rat(-p, -q) ELSE Rat(p, q)

\* den > 0 ? num / den : 0
RatioIfPositive(num, den) == IF Positive(den) THEN Div(num, den) ELSE Rat(0, 1)

\* efficiency of Scope 3: the two ratios of every sub-category
Scope3Efficiency(bySub) ==
  [j \in DOMAIN bySub |->
     [key |-> bySub[j].key,
      valuePerEFFuel |-> RatioIfPositive(bySub[j].totalValue, bySub[j].totalEFFuel),
      effuelPerQuantity |-> RatioIfPositive(bySub[j].totalEFFuel, bySub[j].totalQuantity)]]

\* the analytics with one array of mapSub's values shared by the views:
\* the in-place sort for topContributors then reorders bySubCategory too
Scope3AnalyticsSharingArray(data_) ==
  IF Len(data_) = 0
  THEN [bySubCategory |-> <<>>, byYear |-> <<>>, byDept |-> <<>>,
        totals |-> [totalQuantity |-> Zero, totalEFFuel |-> Zero, totalValue |-> Zero],
        efficiency |-> <<>>, topContributors |-> <<>>]
  ELSE [bySubCategory |->
          SortDesc(Scope3GroupBy(data_, "subCategory", Unknown), "totalValue"),
        efficiency |-> Scope3Efficiency(Scope3GroupBy(data_, "subCategory", Unknown)),
        topContributors |->
          SliceTo(SortDesc(Scope3GroupBy(data_, "subCategory", Unknown), "totalValue"),
                  TopContributors),
        byYear |-> Scope3GroupBy(data_, "financialYear", Word("NA")),
        byDept |-> Scope3GroupBy(data_, "department", Word("NA")),
        totals |->
          [totalQuantity |->
             SumFrom([i \in DOMAIN data_ |-> OrZero(data_[i], "totalQuantity")], 1, Zero),
           totalEFFuel |->
             SumFrom([i \in DOMAIN data_ |-> OrZero(data_[i], "totalEFFuel")], 1, Zero),
           totalValue |->
             SumFrom([i \in DOMAIN data_ |-> OrZero(data_[i], "totalValue")], 1, Zero)]]

\* each view is built from its own Array.from(mapSub.values()), so the sort
\* of topContributors works on a copy
Scope3Analytics(data_) ==
  IF Len(data_) = 0
  THEN [bySubCategory |-> <<>>, byYear |-> <<>>, byDept |-> <<>>,
        totals |-> [totalQuantity |-> Zero, totalEFFuel |-> Zero, totalValue |-> Zero],
        efficiency |-> <<>>, topContributors |-> <<>>]
  ELSE [bySubCategory |-> Scope3GroupBy(data_, "subCategory", Unknown),
        efficiency |-> Scope3Efficiency(Scope3GroupBy(data_, "subCategory", Unknown)),
        topContributors |->
          SliceTo(SortDesc(Scope3GroupBy(data_, "subCategory", Unknown), "totalValue"),
                  TopContributors),
        byYear |-> Scope3GroupBy(data_, "financialYear", Word("NA")),
        byDept |-> Scope3GroupBy(data_, "department", Word("NA")),
        totals |->
          [totalQuantity |->
             SumFrom([i \in DOMAIN data_ |-> OrZero(data_[i], "totalQuantity")], 1, Zero),
           totalEFFuel |->
             SumFrom([i \in DOMAIN data_ |-> OrZero(data_[i], "totalEFFuel")], 1, Zero),
           totalValue |->
             SumFrom([i \in DOMAIN data_ |-> OrZero(data_[i], "totalValue")], 1, Zero)]]

\* ---- Fossil Fuel ----
FossilFuelAnalytics(data_) ==
  IF Len(data_) = 0
  THEN [byType |-> <<>>, byDepartment |-> <<>>, byPlant |-> <<>>,
        totals |-> [totalQty |-> Zero, totalValue |-> Zero]]
  ELSE LET qty(i) == OrZero(data_[i], "quantity")
           val(i) == OrZero(data_[i], "value")
           conv(i) == OrZero(data_[i], "convFactor")
           typeMap == GroupFold([i \in DOMAIN data_ |-> OrUnknown(data_[i], "type")],
                                [i \in DOMAIN data_ |->
                                   [totalQty |-> qty(i), totalValue |-> val(i),
                                    avgConv |-> conv(i)]],
                                1, <<>>)
           deptMap == GroupFold([i \in DOMAIN data_ |-> OrUnknown(data_[i], "department")],
                                [i \in DOMAIN data_ |-> [totalValue |-> val(i)]],
                                1, <<>>)
           plantMap == GroupFold([i \in DOMAIN data_ |-> OrUnknown(data_[i], "plant")],
                                 [i \in DOMAIN data_ |-> [totalQty |-> qty(i)]],
                                 1, <<>>)
       IN [byType |->
             [j \in DOMAIN typeMap |->
                [key |-> typeMap[j].key,
                 totalQty |-> typeMap[j].sums.totalQty,
                 totalValue |-> typeMap[j].sums.totalValue,
                 avgConvFactor |->
                   IF Positive(typeMap[j].sums.totalQty)
                   THEN Quot(typeMap[j].sums.avgConv, Len(data_))
                   ELSE Rat(0, 1)]],
           byDepartment |->
             [j \in DOMAIN deptMap |->
                [key |-> deptMap[j].key, totalValue |-> deptMap[j].sums.totalValue]],
           byPlant |->
             [j \in DOMAIN plantMap |->
                [key |-> plantMap[j].key, totalQty |-> plantMap[j].sums.totalQty]],
           totals |->
             [totalQty |-> SumFrom([i \in DOMAIN data_ |-> qty(i)], 1, Zero),
              totalValue |-> SumFrom([i \in DOMAIN data_ |-> val(i)], 1, Zero)]]

\* ---- Fairness, Diversity ----
\* the key `${d.month || 'Unknown'} ${d.financialYear || 'Unknown'}`
monthKey(d) == Joined(OrUnknown(d, "month"), OrUnknown(d, "financialYear"))

\* if (d[dim]) map.set(d[dim], (map.get(d[dim]) || 0) + d[measure])
RECURSIVE DimFold(_, _, _, _, _)
DimFold(data_, dim, measure, i, acc) ==
  IF i > Len(data_) THEN acc
  ELSE LET k == Get(data_[i], dim)
           v == Get(data_[i], measure)
       IN IF ~Truthy(k) THEN DimFold(data_, dim, measure, i + 1, acc)
          ELSE IF HasKey(acc, k)
          THEN DimFold(data_, dim, measure, i + 1,
                       [acc EXCEPT ![KeyIndex(acc, k)].value = Add(Or(@, Zero), v)])
          ELSE DimFold(data_, dim, measure, i + 1,
                       Append(acc, [key |-> k, value |-> Add(Zero, v)]))

\* the Maps of the Fairness analytics (monthMap, dim1Map, dim2Map)
FairnessAnalytics(data_) ==
  IF Len(data_) = 0
  THEN [monthlyTrends |-> <<>>, dimension1 |-> <<>>, dimension2 |-> <<>>]
  ELSE LET monthMap ==
             GroupFold([i \in DOMAIN data_ |-> monthKey(data_[i])],
                       [i \in DOMAIN data_ |->
                          [accountsPayable |-> Get(data_[i], "accountsPayable"),
                           totalDataBreachPct |-> Get(data_[i], "customerDataBreachPct")]],
                       1, <<>>)
       IN [monthlyTrends |->
             [j \in DOMAIN monthMap |->
                [key |-> monthMap[j].key,
                 accountsPayable |-> monthMap[j].sums.accountsPayable,
                 count |-> monthMap[j].count]],
           dimension1 |-> DimFold(data_, "dim1", "accountsPayable", 1, <<>>),
           dimension2 |-> DimFold(data_, "dim2", "accountsPayable", 1, <<>>)]

\* the Maps of the Diversity analytics (monthYearMap, complaintsByDim1/2)
DiversityAnalytics(data_) ==
  IF Len(data_) = 0
  THEN [monthYear |-> <<>>, complaintsByDim1 |-> <<>>, complaintsByDim2 |-> <<>>]
  ELSE LET monthYearMap ==
             GroupFold([i \in DOMAIN data_ |-> monthKey(data_[i])],
                       [i \in DOMAIN data_ |->
                          [wagesFemales |-> Get(data_[i], "wagesFemales"),
                           wagesMales |-> Get(data_[i], "wagesMales"),
                           complaints |-> Get(data_[i], "totalComplaints"),
                           complaintsByFemales |-> Get(data_[i], "complaintsByFemale"),
                           poshUpheld |-> Get(data_[i], "poshUpheld")]],
                       1, <<>>)
       IN [monthYear |->
             [j \in DOMAIN monthYearMap |->
                [key |-> monthYearMap[j].key,
                 wagesFemales |-> monthYearMap[j].sums.wagesFemales,
                 wagesMales |-> monthYearMap[j].sums.wagesMales,
                 poshUpheld |-> monthYearMap[j].sums.poshUpheld,
                 recordCount |-> monthYearMap[j].count]],
           complaintsByDim1 |-> DimFold(data_, "dim1", "totalComplaints", 1, <<>>),
           complaintsByDim2 |-> DimFold(data_, "dim2", "totalComplaints", 1, <<>>)]

\* ---- Openness, Inclusion ----
\* monthlyMap of Openness, keyed by d.monthYear as the loader built it
OpennessMonthlyMap(data_) ==
  LET groups ==
        GroupFold([i \in DOMAIN data_ |-> Get(data_[i], "monthYear")],
                  [i \in DOMAIN data_ |->
                     [rptPurchases |-> Get(data_[i], "rptPurchases"),
                      rptSales |-> Get(data_[i], "rptSales")]],
                  1, <<>>)
  IN [j \in DOMAIN groups |->
        [key |-> groups[j].key,
         rptPurchases |-> groups[j].sums.rptPurchases,
         rptSales |-> groups[j].sums.rptSales]]

\* a - b on numbers
Sub(a, b) == Add(a, Mul(Num(-1), b))

\* prev ? ((cur - prev) / prev) * 100 : 0
Growth(cur, prev) ==
  IF Truthy(prev) THEN Div(Mul(Sub(cur, prev), Num(100)), prev) ELSE Rat(0, 1)

\* monthlyTrends of Openness: the months of the Map, each with its growth
\* over the month before it (0 for the first)
OpennessMonthlyTrends(data_) ==
  LET months == OpennessMonthlyMap(data_)
  IN [i \in DOMAIN months |->
        [key |-> months[i].key,
         rptPurchases |-> months[i].rptPurchases,
         rptSales |-> months[i].rptSales,
         momPurchases |->
           IF i = 1 THEN Rat(0, 1)
           ELSE Growth(months[i].rptPurchases, months[i - 1].rptPurchases),
         momSales |->
           IF i = 1 THEN Rat(0, 1)
           ELSE Growth(months[i].rptSales, months[i - 1].rptSales)]]

\* dim1Map / dim2Map of Openness, keyed by d[dim] itself
OpennessDimMap(data_, dim, measure) ==
  LET groups ==
        GroupFold([i \in DOMAIN data_ |-> Get(data_[i], dim)],
                  [i \in DOMAIN data_ |->
                     [value |-> parseNumeric("openness", Get(data_[i], measure))]],
                  1, <<>>)
  IN [j \in DOMAIN groups |-> [key |-> groups[j].key, value |-> groups[j].sums.value]]

\* dim1Breakdown / dim2Breakdown of Openness: the entries of the Map, sorted
\* by value and cut
OpennessDimBreakdown(data_, dim, measure) ==
  SliceTo(SortDesc(OpennessDimMap(data_, dim, measure), "value"), TopCategories)

\* numericFields.reduce((acc, f) => acc + (d[f] || 0), 0)
RECURSIVE SumOfFields(_, _)
SumOfFields(d, fields) ==
  IF fields = {} THEN Zero
  ELSE LET f == CHOOSE x \in fields : TRUE
       IN Add(SumOfFields(d, fields \ {f}), OrZero(d, f))

\* one entry of dimensionBreakdown of Inclusion
InclusionDimension(data_, dim) ==
  LET groups ==
        GroupFold([i \in DOMAIN data_ |-> OrUnknown(data_[i], dim)],
                  [i \in DOMAIN data_ |->
                     [value |-> SumOfFields(data_[i], numericFields("inclusion"))]],
                  1, <<>>)
  IN [j \in DOMAIN groups |-> [key |-> groups[j].key, value |-> groups[j].sums.value]]

\* monthlyMap of Inclusion, keyed by d.monthYear as the loader built it
InclusionMonthlyMap(data_) ==
  LET groups ==
        GroupFold([i \in DOMAIN data_ |-> Get(data_[i], "monthYear")],
                  [i \in DOMAIN data_ |->
                     [f \in numericFields("inclusion") |-> OrZero(data_[i], f)]],
                  1, <<>>)
  IN [j \in DOMAIN groups |-> [key |-> groups[j].key, sums |-> groups[j].sums]]

(***************************************************************************)
(* Uploaded workbooks.  A grid is MaxPad or fewer title rows, then a block *)
(* of header rows, then MaxBody or fewer data rows.                        *)
(***************************************************************************)
MaxPad == 10
MaxBody == 3

Reverse(seq) == [i \in 1..Len(seq) |-> seq[Len(seq) + 1 - i]]

TitleRow == <<Word("ESG Report")>>
BlankRow == <<Empty, Null>>

\* the complete header row, in dictionary order
HeaderRow(m) == [i \in DOMAIN fieldMapping(m) |-> Word(fieldMapping(m)[i][1])]
\* the same labels in another column order, after an unmapped column
HeaderRowPermuted(m) == <<Word("Remarks")>> \o Reverse(HeaderRow(m))
\* the header row without its last label
HeaderRowPartial(m) == SubSeq(HeaderRow(m), 1, Len(HeaderRow(m)) - 1)

\* the header row with its last label once more in an extra column
HeaderRowRepeating(m) == HeaderRow(m) \o <<HeaderRow(m)[Len(HeaderRow(m))]>>

\* the cells of two source records, by canonical key
SourceA(m, key) ==
  IF key \in numericFields(m) THEN Num(100)
  ELSE CASE key = "month" -> Word("Jan")
         [] key = "financialYear" -> Num(2024)
         [] key \in {"dim1", "dim2", "dim3"} -> Str(<<" ", "North">>)
         [] key \in {"complianceInd", "actualCompliance"} -> Word("Y")
         [] key = "subCategory" -> Word("Travel")
         [] key = "department" -> Word("Ops")
         [] key = "type" -> Word("R22")
         [] OTHER -> Word("x")

SourceB(m, key) ==
  IF key \in numericFields(m) THEN Str(<<"rupee", "1", ",", "2", "0", "0", ".", "5">>)
  ELSE CASE key = "month" -> Empty
         [] key \in {"complianceInd", "actualCompliance"} -> Word("n")
         [] key = "attribute" -> Num(0)
         [] OTHER -> Null

DataRowA(m) == [i \in DOMAIN fieldMapping(m) |-> SourceA(m, fieldMapping(m)[i][2])]
DataRowB(m) == [i \in DOMAIN fieldMapping(m) |-> SourceB(m, fieldMapping(m)[i][2])]

\* a data row laid out for the permuted header
Permuted(row) == <<Word("note")>> \o Reverse(row)

RECURSIVE SeqsUpTo(_, _)
SeqsUpTo(S, n) ==
  IF n = 0 THEN {<<>>}
  ELSE LET shorter == SeqsUpTo(S, n - 1)
       IN shorter \cup {Append(q, x) : q \in {r \in shorter : Len(r) = n - 1}, x \in S}

Pad(k) == [i \in 1..k |-> TitleRow]

HeaderBlocks(m) ==
  { <<>>, <<HeaderRow(m)>>, <<HeaderRowPartial(m)>>,
    <<HeaderRowPartial(m), HeaderRow(m)>>, <<HeaderRow(m), HeaderRow(m)>> }

Bodies(m) == SeqsUpTo({DataRowA(m), DataRowB(m), BlankRow}, MaxBody)

\* the title rows of the usual export: the header on row 3 for the scanning
\* modules, on row HeaderIndex for the others
TitleRows(m) == IF m \in ScanModules THEN 3 ELSE HeaderIndex

Grids(m) ==
  { Pad(k) \o h \o <<DataRowA(m)>> : k \in 0..MaxPad, h \in HeaderBlocks(m) }
  \cup
  { Pad(TitleRows(m)) \o h \o b : h \in HeaderBlocks(m), b \in Bodies(m) }
  \cup
  { Pad(TitleRows(m)) \o <<HeaderRowPermuted(m)>> \o [i \in 1..Len(b) |-> Permuted(b[i])] :
      b \in Bodies(m) }
  \cup
  { Pad(TitleRows(m)) \o <<HeaderRowRepeating(m), DataRowA(m) \o <<Word("other")>> >> }

\* the few workbooks of a session of several uploads
SessionGrids(m) ==
  LET k == TitleRows(m)
  IN { <<>>, Pad(k) \o <<HeaderRow(m)>>,
       Pad(k) \o <<HeaderRow(m), DataRowB(m)>>,
       Pad(k) \o <<HeaderRow(m), BlankRow, DataRowA(m)>> }

GridPool == [m \in FileModules |-> Grids(m)]

\* workbooks for the top-N views and the ratios: up to MaxSubs (Scope 3) or
\* MaxDims (Openness) data rows, row j of group j and month j with the
\* measure 1 and the quantities 100, except that row h carries the measure 2
\* and the quantities -100, and row r (the second or the last, if any)
\* belongs to the group and month of row 1 and cancels what row 1 carries
MaxSubs == 7
MaxDims == 22
RankedModules == {"scope3", "openness"}
MaxGroups(m) == IF m = "scope3" THEN MaxSubs ELSE MaxDims
GroupName(j) == Str(<<"G">> \o NatToString(j))
RankCell(m, key, j, h, r) ==
  IF key \in {"subCategory", "dim1", "dim2", "month"}
  THEN GroupName(IF j = r THEN 1 ELSE j)
  ELSE IF key \in {"totalValue", "rptPurchases", "rptSales"}
  THEN Num(IF j = r /\ j > 1 THEN -1 ELSE IF j = h THEN 2 ELSE 1)
  ELSE IF key \in {"totalEFFuel", "totalQuantity"}
  THEN Num(IF (j = r /\ j > 1) \/ j = h THEN -100 ELSE 100)
  ELSE SourceA(m, key)
RankRow(m, j, h, r) ==
  [i \in DOMAIN fieldMapping(m) |-> RankCell(m, fieldMapping(m)[i][2], j, h, r)]
RankBody(m, k, h, r) == [j \in 1..k |-> RankRow(m, j, h, r)]
RankGrids(m) ==
  UNION { { Pad(TitleRows(m)) \o <<HeaderRow(m)>> \o RankBody(m, k, h, r) :
              h \in 0..k, r \in {0, 2, k} } : k \in 0..MaxGroups(m) }
RankGridPool == [m \in RankedModules |-> RankGrids(m)]
SessionGridPool == [m \in FileModules |-> SessionGrids(m)]

(***************************************************************************)
(* API payloads: the JSON array an endpoint answers with.  The server has  *)
(* already passed quantity, convFactor, value and cfStd through its        *)
(* parseNumeric, so these are numbers; the other columns are strings or    *)
(* null, and a column the query does not select is absent.                 *)
(***************************************************************************)
MaxRecs == 3

ApiModules == {"attribute", "electricity", "water", "energy", "fossilfuel"}
Modules == ApiModules \cup FileModules

RecordA ==
  [ parameter |-> Word("Intake"), subCategory |-> Word("Electricity"),
    plant |-> Word("Pune"), department |-> Word("Ops"), type |-> Word("Grid"),
    attribute |-> Word("Water"), month |-> Word("Jan"),
    quantity |-> Num(10), convFactor |-> Num(2), value |-> Num(100), cfStd |-> Num(1) ]
RecordB ==
  [ parameter |-> Null, subCategory |-> Empty, plant |-> Null, type |-> Empty,
    attribute |-> Null, month |-> Null,
    quantity |-> Zero, convFactor |-> Zero, value |-> Num(5), cfStd |-> Zero ]
RecordC ==
  [ parameter |-> Word("Discharge"), subCategory |-> Word("Electricity"),
    plant |-> Word("Goa"), department |-> Word("Ops"), type |-> Word("Grid"),
    attribute |-> Word("Water"), month |-> Word("Feb"),
    quantity |-> Dec(25, 1), convFactor |-> Num(3), value |-> Num(-20), cfStd |-> Zero ]

ApiRecords == {RecordA, RecordB, RecordC}
Payloads == SeqsUpTo(ApiRecords, MaxRecs)

\* records of the Energy endpoint: a value of 0 beside a non-zero product,
\* no value, and neither value nor quantity
RecordD == [RecordA EXCEPT !.value = Zero]
RecordE ==
  [ plant |-> Word("Goa"), type |-> Word("Diesel"), month |-> Word("Feb"),
    quantity |-> Num(4), convFactor |-> Dec(25, 1) ]
RecordF == [ plant |-> Word("Pune"), value |-> Null, convFactor |-> Num(3) ]
EnergyPayloads == SeqsUpTo(ApiRecords \cup {RecordD, RecordE, RecordF}, MaxRecs)
\* the arrays the endpoint of module m can answer with
PayloadPool(m) == IF m = "energy" THEN EnergyPayloads ELSE Payloads
\* the few payloads of a session of several loads
SessionPayloads == {<<>>, <<RecordB>>, <<RecordC, RecordA>>}

FilterValues == {"All", "2024"}
MaxInflight == 2

\* the arguments of parseNumeric: the characters a formatted amount carries
\* around its number, and the amounts themselves with the number they embed
MaxAffix == 1
Symbols == {",", "rupee", "$", "euro", "pound", "yen", "%", " "}
Affixes == SeqsUpTo(Symbols, MaxAffix)
Numerals == {
  [s |-> <<"5">>, v |-> Num(5)],
  [s |-> <<"-", "5">>, v |-> Num(-5)],
  [s |-> <<"2", ".", "5">>, v |-> Dec(25, 1)],
  [s |-> <<"1", ",", "2", "3", "4", ".", "5", "0">>, v |-> Dec(12345, 1)] }
Amounts == {[s |-> l \o n.s \o t, v |-> n.v] : l \in Affixes, t \in Affixes, n \in Numerals}
\* strings with no digit
Unparsable == {<<"abc">>, <<"N/A">>, <<" ">>, <<"-">>, <<".">>, <<"rupee">>, <<"-", "abc">>}
CellPool ==
  {Undef, Null, Empty, NaN, Bool(TRUE), Bool(FALSE), Num(0), Num(5), Num(-5), Dec(25, 1)}
    \cup {Str(u) : u \in Unparsable} \cup {Str(a.s) : a \in Amounts}

(***************************************************************************)
(* The dashboard: the mounted module and its component state.              *)
(***************************************************************************)
VARIABLES
  activeModule,  \* ESGDashboard.activeModule
  filters,       \* ESGDashboard.filters (the year filter stands for the five)
  data,          \* the component's records (data / waterData)
  isLoading,     \* the component's isLoading
  status,        \* uploadStatus / loadStatus; for Fossil Fuel "error" iff error is set
  inflight,      \* the loads started and not yet resumed (fetches, FileReaders)
  raw,           \* the raw source the last completed load delivered
  lastError,     \* the error the last completed load caught ("" if none)
  renderError,   \* the component's analytics threw while rendering
  fresh,         \* no load has completed since the module was mounted
  served,        \* the request of the load that resumed last
  cell,          \* the last call of parseNumeric: the copy called and its argument
  coerced,       \* the value that call returned
  call,          \* the last request the server handled: its endpoint and query outcome
  reply          \* the response the server sent to it

vars ==
  <<activeModule, filters, data, isLoading, status, inflight, raw, lastError,
    renderError, fresh, served, cell, coerced, call, reply>>

\* the call of parseNumeric and the server's request recorded for inspection;
\* the dashboard's own steps leave them alone
coercion == <<cell, coerced, call, reply>>
\* no call has been recorded
NoCell == [site |-> "", val |-> Undef]
\* no request has been recorded
NoCall == [endpoint |-> "", outcome |-> [failed |-> FALSE, recordset |-> <<>>]]
NoReply == [status |-> 0, kind |-> "", rows |-> <<>>]

ErrFetch == "API call failed"
ErrEmpty == "No data found from API."

\* modules whose useEffect reloads when the filters change
FilterDriven == {"attribute", "electricity", "water", "energy"}
\* modules whose Refresh button is disabled while isLoading
RefreshGuarded == {"attribute", "electricity", "water", "energy"}

Request(f) == [filters |-> f]
\* getFossilFuelData() is called without the filters; the other API modules
\* pass their filters prop to the service
NoFilters == "undefined"
argument(m, f) == IF m = "fossilfuel" THEN NoFilters ELSE f
\* apiCall: a filter is appended to the URL if (value && value !== 'All')
searchParams(request) ==
  IF request.filters \in {NoFilters, "", "All"} THEN {} ELSE {<<"year", request.filters>>}
\* no load has resumed yet
NoRequest == [filters |-> ""]

\* d.complianceInd.toUpperCase() of Fairness throws on a record without the
\* property; the other modules' analytics guard their reads
analyticsThrows(m, records) ==
  m = "fairness" /\ \E i \in DOMAIN records : IsNullish(Get(records[i], "complianceInd"))

\* the component of module m right after mounting: an API module's
\* useEffect has started its first load
Mount(m, f) ==
  /\ activeModule' = m
  /\ data' = <<>>
  /\ status' = "idle"
  /\ isLoading' = (m \in ApiModules)
  /\ inflight' = IF m \in ApiModules THEN <<Request(argument(m, f))>> ELSE <<>>
  /\ raw' = <<>>
  /\ lastError' = ""
  /\ renderError' = FALSE
  /\ fresh' = TRUE
  /\ served' = NoRequest
  /\ UNCHANGED coercion

Init ==
  /\ activeModule = "attribute"
  /\ filters = "All"
  /\ data = <<>>
  /\ status = "idle"
  /\ isLoading = TRUE
  /\ inflight = <<Request("All")>>
  /\ raw = <<>>
  /\ lastError = ""
  /\ renderError = FALSE
  /\ fresh = TRUE
  /\ served = NoRequest
  /\ cell = NoCell
  /\ coerced = Undef
  /\ call = NoCall
  /\ reply = NoReply

\* sidebar click: the old component unmounts (its pending loads no longer
\* reach any state) and the component of m mounts
setActiveModule(m) ==
  /\ ~renderError
  /\ m # activeModule
  /\ Mount(m, filters)
  /\ UNCHANGED filters

\* loadDataFromAPI / loadDataFromDatabase / fetchFossilFuelData up to the await
StartLoad(f) ==
  /\ isLoading' = TRUE
  /\ status' = "idle"
  /\ inflight' = Append(inflight, Request(argument(activeModule, f)))
  /\ UNCHANGED <<activeModule, data, raw, lastError, renderError, fresh, served>>
  /\ UNCHANGED coercion

\* a filter select changes: setFilters, and the filter-driven modules reload
updateFilter(v) ==
  /\ ~renderError
  /\ v # filters
  /\ filters' = v
  /\ IF activeModule \in FilterDriven
     THEN Len(inflight) < MaxInflight /\ StartLoad(v)
     ELSE UNCHANGED <<activeModule, data, isLoading, status, inflight, raw,
                      lastError, renderError, fresh, served, cell, coerced, call, reply>>

\* the Refresh button of an API module
handleRefreshData ==
  /\ ~renderError
  /\ activeModule \in ApiModules
  /\ activeModule \in RefreshGuarded => ~isLoading
  /\ Len(inflight) < MaxInflight
  /\ StartLoad(filters)
  /\ UNCHANGED filters

Remove(seq, i) == SubSeq(seq, 1, i - 1) \o SubSeq(seq, i + 1, Len(seq))

\* the continuation fenced by a generation check: only the response of the
\* load issued last is applied, an older one is dropped
fetchResolvedFenced(i, payload) ==
  /\ ~renderError
  /\ activeModule \in ApiModules
  /\ i \in DOMAIN inflight
  /\ inflight' = Remove(inflight, i)
  /\ served' = inflight[i]
  /\ raw' = payload
  /\ fresh' = FALSE
  /\ IF i # Len(inflight)
     THEN UNCHANGED <<data, status, lastError, renderError, isLoading>>
     ELSE /\ isLoading' = FALSE
          /\ IF activeModule = "fossilfuel" /\ Len(payload) = 0
             THEN /\ status' = "error"
                  /\ lastError' = ErrEmpty
                  /\ UNCHANGED <<data, renderError>>
             ELSE /\ data' = formatted(activeModule, payload)
                  /\ status' = IF activeModule = "fossilfuel" THEN status ELSE "success"
                  /\ lastError' = ""
                  /\ renderError' = analyticsThrows(activeModule, payload)
  /\ UNCHANGED <<activeModule, filters, cell, coerced, call, reply>>

\* the continuation of a load whose fetch answered with the JSON array payload
fetchResolved(i, payload) ==
  /\ ~renderError
  /\ activeModule \in ApiModules
  /\ i \in DOMAIN inflight
  /\ inflight' = Remove(inflight, i)
  /\ served' = inflight[i]
  /\ raw' = payload
  /\ fresh' = FALSE
  /\ isLoading' = FALSE
  /\ IF activeModule = "fossilfuel" /\ Len(payload) = 0
     THEN /\ status' = "error"
          /\ lastError' = ErrEmpty
          /\ UNCHANGED <<data, renderError>>
     ELSE /\ data' = formatted(activeModule, payload)
          /\ status' = IF activeModule = "fossilfuel" THEN status ELSE "success"
          /\ lastError' = ""
          /\ renderError' = analyticsThrows(activeModule, payload)
  /\ UNCHANGED <<activeModule, filters, cell, coerced, call, reply>>

\* the continuation of a load whose fetch failed (network error or !response.ok)
fetchRejected(i) ==
  /\ ~renderError
  /\ activeModule \in ApiModules
  /\ i \in DOMAIN inflight
  /\ inflight' = Remove(inflight, i)
  /\ served' = inflight[i]
  /\ raw' = <<>>
  /\ fresh' = FALSE
  /\ isLoading' = FALSE
  /\ status' = "error"
  /\ lastError' = ErrFetch
  /\ UNCHANGED <<activeModule, filters, data, renderError, cell, coerced, call, reply>>

\* the change handler of the file input, up to reader.readAsBinaryString
handleFileUpload ==
  /\ ~renderError
  /\ activeModule \in FileModules
  /\ Len(inflight) < MaxInflight
  /\ StartLoad(filters)
  /\ UNCHANGED filters

\* reader.onload of a file whose first sheet is the grid rows
readerOnload(i, rows) ==
  /\ ~renderError
  /\ activeModule \in FileModules
  /\ i \in DOMAIN inflight
  /\ inflight' = Remove(inflight, i)
  /\ served' = inflight[i]
  /\ raw' = rows
  /\ fresh' = FALSE
  /\ isLoading' = FALSE
  /\ \E result \in {onload(activeModule, rows)} :
        IF result.ok
        THEN /\ data' = result.data
             /\ status' = "success"
             /\ lastError' = ""
             /\ renderError' = analyticsThrows(activeModule, result.data)
        ELSE /\ status' = "error"
             /\ lastError' = result.error
             /\ UNCHANGED <<data, renderError>>
  /\ UNCHANGED <<activeModule, filters, cell, coerced, call, reply>>

\* the FileReader fails to read the file: it fires its error event, for
\* which the handlers register no callback, and onload is never called
readerError(i) ==
  /\ ~renderError
  /\ activeModule \in FileModules
  /\ i \in DOMAIN inflight
  /\ inflight' = Remove(inflight, i)
  /\ UNCHANGED <<activeModule, filters, data, isLoading, status, raw, lastError,
                 renderError, fresh, served, cell, coerced, call, reply>>

SwitchModule == \E m \in Modules : setActiveModule(m)
ChangeFilter == \E v \in FilterValues : updateFilter(v)
Resolve ==
  \E i \in 1..MaxInflight : \E payload \in SessionPayloads : fetchResolved(i, payload)
Reject == \E i \in 1..MaxInflight : fetchRejected(i)
Onload ==
  /\ activeModule \in FileModules
  /\ \E i \in 1..MaxInflight :
       \E rows \in SessionGridPool[activeModule] : readerOnload(i, rows)
ReadFails == \E i \in 1..MaxInflight : readerError(i)

\* a session of the dashboard: any sequence of module switches, filter
\* changes, refreshes and uploads, the loads resuming in any order
Next ==
  \/ SwitchModule
  \/ ChangeFilter
  \/ handleRefreshData
  \/ Resolve
  \/ Reject
  \/ handleFileUpload
  \/ Onload
  \/ ReadFails

Spec == Init /\ [][Next]_vars

\* one load into a freshly mounted module, its input drawn from the large
\* pools: the loaders and the analytics as functions of their input
InitLoad ==
  /\ activeModule \in Modules
  /\ filters \in FilterValues
  /\ data = <<>>
  /\ status = "idle"
  /\ isLoading = (activeModule \in ApiModules)
  /\ inflight = IF activeModule \in ApiModules
                THEN <<Request(argument(activeModule, filters))>> ELSE <<>>
  /\ raw = <<>>
  /\ lastError = ""
  /\ renderError = FALSE
  /\ fresh = TRUE
  /\ served = NoRequest
  /\ cell = NoCell
  /\ coerced = Undef
  /\ call = NoCall
  /\ reply = NoReply

FirstUpload == fresh /\ inflight = <<>> /\ handleFileUpload
FirstOnload ==
  /\ fresh
  /\ activeModule \in FileModules
  /\ \E rows \in GridPool[activeModule] : readerOnload(1, rows)
FirstResolve == fresh /\ \E payload \in PayloadPool(activeModule) : fetchResolved(1, payload)
FirstReject == fresh /\ fetchRejected(1)
FirstReadFails == fresh /\ readerError(1)

NextLoad ==
  \/ FirstUpload
  \/ FirstOnload
  \/ FirstResolve
  \/ FirstReject
  \/ FirstReadFails

SpecLoad == InitLoad /\ [][NextLoad]_vars

\* the events that end a load in flight: a response, a rejection, the
\* reader's load or error event
FirstResume == FirstOnload \/ FirstResolve \/ FirstReject \/ FirstReadFails

\* the same load under the scheduling of the browser: a load in flight ends
\* with one of its events (the user is not bound to upload anything)
SpecLoadFair == SpecLoad /\ WF_vars(FirstResume)

\* one upload into Scope 3 or Openness of a workbook of many groups: the
\* top-N views as functions of the upload
InitRank == InitLoad /\ activeModule \in RankedModules /\ filters = "All"
RankOnload ==
  /\ fresh
  /\ activeModule \in RankedModules
  /\ \E rows \in RankGridPool[activeModule] : readerOnload(1, rows)
NextRank ==
  \/ FirstUpload
  \/ RankOnload
SpecRank == InitRank /\ [][NextRank]_vars

\* one call of parseNumeric: any copy, on any cell value
Coerce ==
  /\ cell = NoCell
  /\ \E m \in CoercionSites : \E val \in CellPool :
        /\ cell' = [site |-> m, val |-> val]
        /\ coerced' = parseNumeric(m, val)
  /\ UNCHANGED <<activeModule, filters, data, isLoading, status, inflight, raw,
                 lastError, renderError, fresh, served, call, reply>>

\* parseNumeric as a function of its argument
SpecCoerce == Init /\ [][Coerce]_vars

(***************************************************************************)
(* The backend (server.js): one GET request, handled with its database     *)
(* query either failing or delivering a recordset.                         *)
(***************************************************************************)
\* the keys of ESG_MODULES, one endpoint /api/{module} each
ModuleEndpoints ==
  {"water", "waste", "energy", "ghg", "non-ghg", "openness", "fossil-fuel", "fugitive",
   "electricity"}
Endpoints == {"attribute-details", "esg-data"} \cup ModuleEndpoints

\* pool.request().query(query) throws, or resolves with result.recordset
QueryFailed == [failed |-> TRUE, recordset |-> <<>>]
Delivered(recordset) == [failed |-> FALSE, recordset |-> recordset]

\* result.recordset.map(row => ({...row, quantity: parseNumeric(row.quantity), ...}))
processedData(recordset) ==
  [i \in DOMAIN recordset |->
     [k \in DOMAIN recordset[i] \cup {"quantity", "convFactor", "value", "cfStd"} |->
        IF k \in {"quantity", "convFactor", "value", "cfStd"}
        THEN parseNumeric("server", Get(recordset[i], k))
        ELSE recordset[i][k]]]

\* res.json(rows) and res.status(500).json({error: ...})
JsonArray(rows) == [status |-> 200, kind |-> "array", rows |-> rows]
JsonError == [status |-> 500, kind |-> "error", rows |-> <<>>]

\* the route handler of endpoint, its query ending with outcome
respond(endpoint, outcome) ==
  CASE endpoint = "attribute-details" ->
         IF outcome.failed THEN JsonError ELSE JsonArray(processedData(outcome.recordset))
    [] endpoint \in ModuleEndpoints ->
         IF outcome.failed THEN JsonArray(<<>>)
         ELSE JsonArray(processedData(outcome.recordset))
    [] endpoint = "esg-data" ->
         IF outcome.failed THEN JsonArray(<<>>) ELSE JsonArray(outcome.recordset)

\* rows of dbo.AttributeDetail as the driver delivers them
DbRowText ==
  [ plant |-> Word("Goa"), attribute |-> Word("Water"),
    quantity |-> Str(<<"1", ",", "2", "0", "0", ".", "5">>), convFactor |-> Null,
    value |-> Word("n/a") ]
Recordsets == SeqsUpTo(ApiRecords \cup {DbRowText}, MaxRecs)
QueryOutcomes == {QueryFailed} \cup {Delivered(recordset) : recordset \in Recordsets}

\* one request, served
Serve ==
  /\ call = NoCall
  /\ \E endpoint \in Endpoints : \E outcome \in QueryOutcomes :
        /\ call' = [endpoint |-> endpoint, outcome |-> outcome]
        /\ reply' = respond(endpoint, outcome)
  /\ UNCHANGED <<activeModule, filters, data, isLoading, status, inflight, raw,
                 lastError, renderError, fresh, served, cell, coerced>>

SpecServe == Init /\ [][Serve]_vars

(***************************************************************************)
(* Properties.  Each is stated on the state a load leaves behind: raw is   *)
(* the source the load delivered, data the records the component holds,    *)
(* and the analytics are functions of data.                                *)
(***************************************************************************)
RECURSIVE NatSum(_)
NatSum(ns) == IF ns = <<>> THEN 0 ELSE Head(ns) + NatSum(Tail(ns))

RECURSIVE Total(_)
Total(xs) == IF xs = <<>> THEN Zero ELSE Add(Head(xs), Total(Tail(xs)))

Range(f) == {f[i] : i \in DOMAIN f}

WaterGroupings == {"parameter", "subCategory", "plant"}
ElectricityGroupings == {"plant", "department", "subCategory", "type"}
CategoryGroupings == {"attribute", "parameter", "subCategory", "type"}

\* C1: for every record sequence and every single-key grouping (Water by
\* parameter, subCategory and plant; Electricity aggregateBy), the counts of
\* the output groups add up to the number of input records.
C1_CountsSumToInputSize ==
  /\ activeModule = "water" =>
       \A field \in WaterGroupings :
          LET groups == WaterGroupBy(data, field)
          IN NatSum([j \in DOMAIN groups |-> groups[j].count]) = Len(data)
  /\ activeModule = "electricity" =>
       \A key \in ElectricityGroupings :
          LET groups == aggregateBy(data, key)
          IN NatSum([j \in DOMAIN groups |-> groups[j].count]) = Len(data)

\* C1 witness: a Water load of three records that fall into two plant
\* groups, one of them holding two records
C1_Witness ==
  /\ activeModule = "water" /\ ~fresh /\ Len(data) = 3
  /\ LET groups == WaterGroupBy(data, "plant")
     IN Len(groups) = 2 /\ \E j \in DOMAIN groups : groups[j].count = 2

\* the index at which key k is first seen in keys
FirstSeen(keys, k) == CHOOSE i \in DOMAIN keys :
                        keys[i] = k /\ \A h \in 1..(i - 1) : keys[h] # k

\* groups (by their keys) are one per distinct key of keys, in first-seen order
OnePerKeyInFirstSeenOrder(groupKeys, keys) ==
  /\ Len(groupKeys) = Cardinality(Range(keys))
  /\ Range(groupKeys) = Range(keys)
  /\ \A j, k \in DOMAIN groupKeys :
        j < k => FirstSeen(keys, groupKeys[j]) < FirstSeen(keys, groupKeys[k])

\* C2: an aggregation (aggregateByCategory of Attribute Details, aggregate of
\* Fugitive) outputs exactly one group per distinct grouping-key value
\* observed in its input, and the groups are in the order in which their
\* keys were first seen.
C2_OneGroupPerKeyFirstSeen ==
  /\ activeModule = "attribute" =>
       \A catKey \in CategoryGroupings :
          LET groups == aggregateByCategory(data, catKey)
          IN OnePerKeyInFirstSeenOrder(
               [j \in DOMAIN groups |-> groups[j].category],
               [i \in DOMAIN data |-> OrUnknown(data[i], catKey)])
  /\ activeModule = "fugitive" =>
       \A key \in CategoryGroupings :
          LET groups == aggregate(data, key)
          IN OnePerKeyInFirstSeenOrder(
               [j \in DOMAIN groups |-> groups[j].category],
               [i \in DOMAIN data |-> OrUnknown(data[i], key)])

\* C2 witness: an Attribute Details load whose first and third record share
\* a parameter the second does not have, so a key recurs after another key
C2_Witness ==
  /\ activeModule = "attribute" /\ ~fresh /\ Len(data) = 3
  /\ OrUnknown(data[1], "parameter") = OrUnknown(data[3], "parameter")
  /\ OrUnknown(data[1], "parameter") # OrUnknown(data[2], "parameter")
  /\ Len(aggregateByCategory(data, "parameter")) = 2

\* the per-group totals of measure X add up to total
GroupsAddUpTo(groups, X, total) == Total([j \in DOMAIN groups |-> groups[j][X]]) = total

C4_EveryRecordInEveryBreakdown ==
  /\ activeModule = "fairness" /\ status = "success" /\ ~renderError =>
       LET a == FairnessAnalytics(data)
       IN \A i \in DOMAIN data :
             /\ \E j \in DOMAIN a.monthlyTrends : a.monthlyTrends[j].key = monthKey(data[i])
             /\ \E j \in DOMAIN a.dimension1 :
                   a.dimension1[j].key = OrUnknown(data[i], "dim1")
             /\ \E j \in DOMAIN a.dimension2 :
                   a.dimension2[j].key = OrUnknown(data[i], "dim2")
  /\ activeModule = "diversity" /\ status = "success" =>
       LET a == DiversityAnalytics(data)
       IN \A i \in DOMAIN data :
             /\ \E j \in DOMAIN a.monthYear : a.monthYear[j].key = monthKey(data[i])
             /\ \E j \in DOMAIN a.complaintsByDim1 :
                   a.complaintsByDim1[j].key = OrUnknown(data[i], "dim1")
             /\ \E j \in DOMAIN a.complaintsByDim2 :
                   a.complaintsByDim2[j].key = OrUnknown(data[i], "dim2")

\* a missing or empty source field: undefined, null or ''
Missing(d, field) == Get(d, field) \in {Undef, Null, Empty}

\* C5 (as stated): in every grouping, the key derived for a record whose
\* source field is missing or empty is the literal "Unknown", each missing
\* component of a composite key being replaced by "Unknown".  Stated on the
\* groupings of Scope 3, the monthly trend of Electricity and the monthYear
\* key of Openness.
C5_MissingKeyIsUnknown ==
  /\ activeModule = "scope3" /\ status = "success" =>
       LET a == Scope3Analytics(data)
       IN \A i \in DOMAIN data :
             /\ Missing(data[i], "subCategory") =>
                  \E j \in DOMAIN a.bySubCategory : a.bySubCategory[j].key = Unknown
             /\ Missing(data[i], "financialYear") =>
                  \E j \in DOMAIN a.byYear : a.byYear[j].key = Unknown
             /\ Missing(data[i], "department") =>
                  \E j \in DOMAIN a.byDept : a.byDept[j].key = Unknown
  /\ activeModule = "electricity" =>
       \A i \in DOMAIN data :
          Missing(data[i], "month") =>
            \E j \in DOMAIN byMonth(data) : byMonth(data)[j].month = Unknown
  /\ activeModule = "openness" /\ status = "success" =>
       \A i \in DOMAIN data :
          Missing(data[i], "month") /\ Missing(data[i], "financialYear") =>
            Get(data[i], "monthYear") = Joined(Unknown, Unknown)

\* a cell with content: not null, not undefined, not the empty string
CellHasContent(c) == c \notin {Null, Undef, Empty}
RowHasContent(row) == \E i \in DOMAIN row : CellHasContent(row[i])

\* row holds every raw header label of module m as a cell value
RowHasLabels(m, row) == \A label \in Labels(m) : \E i \in DOMAIN row : row[i] = Word(label)

\* the 0-based indices, below limit, of the rows that hold every label
MatchesBelow(m, rows, limit) ==
  {j \in 0..(Len(rows) - 1) : j < limit /\ RowHasLabels(m, rows[j + 1])}

Lowest(S) == CHOOSE j \in S : \A k \in S : j <= k

\* the rows after 0-based index h that have content, in order
ContentRowsAfter(rows, h) == SelectSeq(SubSeq(rows, h + 2, Len(rows)), RowHasContent)

\* the records of a scan-for-match module when row h is the header row
ScanRecords(m, rows, h) ==
  LET kept == ContentRowsAfter(rows, h)
  IN [k \in DOMAIN kept |-> mapRowByHeaders(m, rows[h + 1], kept[k], 0, EmptyObject)]

\* C6: under the scan-for-match policy (Scope 3, Diversity) a load that
\* succeeds took as header row the lowest-indexed row of the scanned window
\* that holds every required label as a cell value, in any column order, and
\* as data rows exactly the rows after it.
C6_LowestMatchingRowIsHeader ==
  activeModule \in ScanModules /\ ~fresh /\ status = "success" =>
    LET hits == MatchesBelow(activeModule, raw, 10)
    IN hits # {} /\ data = ScanRecords(activeModule, raw, Lowest(hits))

\* C6 witness: the labels are on row 3 and on row 4 and on no earlier row;
\* row 3 is the header and row 4 the first data row
C6_Witness ==
  /\ activeModule = "scope3" /\ ~fresh /\ status = "success"
  /\ MatchesBelow("scope3", raw, 10) = {3, 4}
  /\ Len(data) = Len(raw) - 4
  /\ Get(data[1], "subCategory") = Word("Sub Category")

\* C7 (amended): the rows scanned are rows 0 through min(10, rowCount) - 1,
\* and a grid of at least two rows ends in the error 'header row not found'
\* if and only if none of those rows holds every required label; a shorter
\* grid ends in the too-short error.
C7_HeaderNotFoundIffNoMatchInFirstTen ==
  activeModule \in ScanModules /\ ~fresh =>
    IF Len(raw) < 2
    THEN status = "error" /\ lastError = ErrTooShort
    ELSE (status = "error" /\ lastError = ErrNoHeader)
           <=> MatchesBelow(activeModule, raw, Min(10, Len(raw))) = {}

\* C7 witness: the only header row is row 10, and the load ends in the
\* error 'header row not found'
C7_Witness ==
  /\ activeModule = "diversity" /\ ~fresh
  /\ MatchesBelow("diversity", raw, Len(raw)) = {10}
  /\ status = "error" /\ lastError = ErrNoHeader

\* C7 (as stated): the rows scanned are rows 0 through min(10, rowCount),
\* and a grid that passes the length check ends in the error 'header row
\* not found' if and only if none of those rows holds every required label.
C7_AsStated ==
  activeModule \in ScanModules /\ ~fresh /\ Len(raw) >= 2 =>
    ((status = "error" /\ lastError = ErrNoHeader)
       <=> MatchesBelow(activeModule, raw, Min(10, Len(raw)) + 1) = {})

\* the header row of a fixed-offset module is row 4
FixedModules == FileModules \ ScanModules

\* the record a fixed-offset module makes of row under the header row
FixedRecord(m, headerRow, row) ==
  CASE m = "fugitive" -> mapRowByHeaders(m, headerRow, row, 0, EmptyObject)
    [] m = "fairness" -> mapRowByIndex(m, colIndexMap(m, headerRow, 0, EmptyObject), row)
    [] m \in {"inclusion", "openness"} ->
         withMonthYear(mapRowByIndex(m, colIndexMap(m, headerRow, 0, EmptyObject), row))

\* C8: after a successful load of a fixed-offset module (Fugitive, Fairness,
\* Inclusion, Openness) the records are exactly, in order, one per row after
\* the header row (row 4) that has a cell that is not null, undefined or the
\* empty string: all-blank rows yield no record, and a row with content but
\* no mapped column still yields its (degenerate) record.
C8_OneRecordPerContentRow ==
  activeModule \in FixedModules /\ ~fresh /\ status = "success" =>
    LET kept == ContentRowsAfter(raw, 4)
    IN /\ Len(data) = Len(kept)
       /\ \A k \in DOMAIN kept : data[k] = FixedRecord(activeModule, raw[5], kept[k])

\* C8 witness: a Fugitive load that skipped a blank row and made the empty
\* record of a row with content under a header row without labels
C8_Witness ==
  /\ activeModule = "fugitive" /\ ~fresh /\ status = "success"
  /\ Len(data) < Len(raw) - 5
  /\ \E k \in DOMAIN data : data[k] = EmptyObject

\* the header row a file load works with, when the grid has one: row 4, or
\* the first of the first ten rows that holds every label
HasHeaderRow(m, rows) ==
  IF m \in ScanModules THEN MatchesBelow(m, rows, 10) # {} ELSE Len(rows) > 4
HeaderRowOf(m, rows) ==
  IF m \in ScanModules THEN Lowest(MatchesBelow(m, rows, 10)) ELSE 4

\* the number of rows below which the handler rejects the grid unread
MinRows(m) ==
  CASE m \in ScanModules -> MinRowsScan
    [] m \in {"fugitive", "fairness"} -> MinRowsFixed
    [] m \in {"inclusion", "openness"} -> 0

\* C9: in file-sourced mode, a load none of whose rows after the header row
\* survives the blank-row filter ends in the error state and reports no
\* success: the status is error, no record is stored, and the error is 'no
\* valid data' unless the grid was rejected for its length before.
C9_NoDataRowsEndsInError ==
  activeModule \in FileModules /\ ~fresh /\ HasHeaderRow(activeModule, raw)
    /\ ContentRowsAfter(raw, HeaderRowOf(activeModule, raw)) = <<>> =>
      /\ status = "error"
      /\ data = <<>>
      /\ Len(raw) >= MinRows(activeModule) => lastError = ErrNoData

\* C9 witness: a Scope 3 grid whose header row is followed by blank rows only
C9_Witness ==
  /\ activeModule = "scope3" /\ ~fresh
  /\ MatchesBelow("scope3", raw, 10) = {3}
  /\ Len(raw) > 5
  /\ ContentRowsAfter(raw, 3) = <<>>
  /\ status = "error" /\ lastError = ErrNoData

\* C10 (as stated): neither the load nor the aggregation of the records a
\* successful load stored raises an exception out of the pipeline; the
\* component is in one of the states success with data, error with message,
\* or idle.
C10_NoExceptionEscapes ==
  /\ ~renderError
  /\ status \in {"idle", "success", "error"}
  /\ status = "error" => lastError # ""

\* the records a completed load makes of its raw source: the payload of a
\* fetch, the records of a grid, nothing when the load failed
RecordsOf(m, source) ==
  IF m \in ApiModules THEN formatted(m, source) ELSE onload(m, source).data

\* C11 (as stated): after any load, refresh or filter change completes, in
\* success or in error, the records the module exposes are built only from
\* that load's raw source; no record of an earlier load remains exposed.
C11_OnlyCurrentLoadExposed ==
  ~fresh =>
    data = IF status = "error" THEN <<>> ELSE RecordsOf(activeModule, raw)

\* C12 (as stated): in API-sourced mode a load whose response is empty or
\* absent ends with error status and an empty record collection, and no
\* exception reaches the caller.
C12_EmptyResponseIsError ==
  activeModule \in ApiModules /\ ~fresh /\ raw = <<>> =>
    status = "error" /\ data = <<>> /\ ~renderError

\* a step of an API module that starts a load keeps the earlier loads in
\* flight; one that resumes a load with a response stores that response
LastResponseWinsStep ==
  activeModule \in ApiModules /\ activeModule' = activeModule =>
    /\ Len(inflight') > Len(inflight) =>
         SubSeq(inflight', 1, Len(inflight)) = inflight
    /\ Len(inflight') < Len(inflight) =>
         /\ Len(inflight') = Len(inflight) - 1
         /\ served' \in Range(inflight)
         /\ status' # "error" =>
              /\ data' = RecordsOf(activeModule, raw')
              /\ activeModule \in FilterDriven => status' = "success"

\* C13: when a second load is started while an earlier one is in flight,
\* the earlier one stays in flight (nothing cancels it), and every response
\* that resolves, of whichever load in flight, becomes the module's records
\* and status (nothing fences it): the response that resolves last wins,
\* also when it belongs to the load issued earlier, with older filters.
C13_LastResponseWins == [][LastResponseWinsStep]_vars

\* C13 witness: Water shows, under the filters chosen last, the records of
\* the response to the load issued with the older filters, which resolved
\* after the response to the newer load
C13_Witness ==
  /\ activeModule = "water" /\ inflight = <<>> /\ status = "success"
  /\ served # NoRequest /\ served.filters # filters
  /\ data # <<>> /\ data = raw

\* the module is no longer loading and its status is success or error
\* (Fossil Fuel has no status: it is settled when it is not loading)
Settled ==
  ~isLoading /\ (activeModule = "fossilfuel" \/ status \in {"success", "error"})

\* C14 (as stated): every load that is started, API fetch or file upload,
\* eventually resumes, with the full payload or with a failure signal, after
\* which the module is no longer loading and its status is success or error.
C14_EveryLoadSettles == (inflight # <<>>) ~> (inflight = <<>> /\ Settled)

\* the strings with no digit at all: parseFloat finds no number in them
HasDigit(s) == \E i \in DOMAIN s : IsDigit(s[i])

\* C15: for every raw cell value parseNumeric returns a number: null,
\* undefined, the empty string, a string that does not parse and a value of
\* any other type all yield exactly 0, and a number is returned unchanged
C15_CoercionIsTotal ==
  cell # NoCell =>
    /\ IsNumber(coerced)
    /\ IsNumber(cell.val) => coerced = cell.val
    /\ cell.val.t \in {"null", "undefined", "boolean"} => coerced = Zero
    /\ cell.val.t = "string" /\ ~HasDigit(cell.val.s) => coerced = Zero

\* a boolean cell goes through toString and parseFloat in Fairness and
\* comes out as 0
C15_Witness ==
  /\ cell = [site |-> "fairness", val |-> Bool(TRUE)]
  /\ coerced = Zero

\* C16: for every string made of optional leading characters from {comma,
\* rupee, $, euro, pound, yen, %, whitespace}, an optionally negative decimal
\* number and optional trailing characters from the same set, each copy of
\* parseNumeric returns the embedded number
C16_AmountYieldsItsNumber ==
  \A a \in Amounts : cell # NoCell /\ cell.val = Str(a.s) => coerced = a.v

\* the top-N views of the mounted module, each with the Map it is cut from,
\* its size and its measure
TopViews ==
  CASE activeModule = "scope3" ->
         {[top |-> Scope3Analytics(data).topContributors,
           all |-> Scope3Analytics(data).bySubCategory,
           keys |-> {Or(Get(data[i], "subCategory"), Unknown) : i \in DOMAIN data},
           n |-> TopContributors, measure |-> "totalValue"]}
    [] activeModule = "openness" ->
         {[top |-> OpennessDimBreakdown(data, "dim1", "rptPurchases"),
           all |-> OpennessDimMap(data, "dim1", "rptPurchases"),
           keys |-> {Get(data[i], "dim1") : i \in DOMAIN data},
           n |-> TopCategories, measure |-> "value"],
          [top |-> OpennessDimBreakdown(data, "dim2", "rptSales"),
           all |-> OpennessDimMap(data, "dim2", "rptSales"),
           keys |-> {Get(data[i], "dim2") : i \in DOMAIN data},
           n |-> TopCategories, measure |-> "value"]}
    [] OTHER -> {}

\* C17: a top-N view has length min(N, number of distinct groups), is
\* sorted in non-increasing order of its measure, and every entry is a
\* group of the untruncated aggregation with the same totals
C17_TopNIsSortedPrefixOfGroups ==
  status = "success" =>
    \A v \in TopViews :
      /\ Len(v.top) = Min(v.n, Cardinality(v.keys))
      /\ \A i \in 1..(Len(v.top) - 1) :
           ~Less(v.top[i][v.measure], v.top[i + 1][v.measure])
      /\ \A i \in DOMAIN v.top : v.top[i] \in Range(v.all)

\* Openness with more groups than a view holds, and the sort moved a group
\* forward
C17_Witness ==
  /\ status = "success"
  /\ activeModule = "openness"
  /\ \E v \in TopViews :
       /\ Len(v.all) > v.n
       /\ v.top # SubSeq(v.all, 1, v.n)

\* the place of group g in the Map
PlaceIn(all, g) == CHOOSE j \in DOMAIN all : all[j] = g

\* C18: in a top-N view groups with equal measure appear in their
\* first-seen (insertion) order, and when a tie straddles the cut-off the
\* earlier-inserted groups are the ones kept
C18_TiesKeepInsertionOrder ==
  status = "success" =>
    \A v \in TopViews :
      /\ \A i, j \in DOMAIN v.top :
           i < j /\ v.top[i][v.measure] = v.top[j][v.measure] =>
             PlaceIn(v.all, v.top[i]) < PlaceIn(v.all, v.top[j])
      /\ \A i \in DOMAIN v.top : \A g \in Range(v.all) \ Range(v.top) :
           g[v.measure] = v.top[i][v.measure] =>
             PlaceIn(v.all, v.top[i]) < PlaceIn(v.all, g)

\* a tie straddles the cut-off: a group left out has the measure of the
\* last group kept, and the view is not a prefix of the Map
C18_Witness ==
  /\ status = "success"
  /\ \E v \in TopViews :
       /\ Len(v.top) = v.n
       /\ \E g \in Range(v.all) \ Range(v.top) : g[v.measure] = v.top[v.n][v.measure]
       /\ v.top # SubSeq(v.all, 1, v.n)

\* the mean of the terms of the records whose key is k: their sum divided
\* by their number, 0 when there is none
MeanOf(keys, terms, k) ==
  Average(SumFrom([i \in DOMAIN keys |-> IF keys[i] = k THEN terms[i] ELSE Zero], 1, Zero),
          Cardinality({i \in DOMAIN keys : keys[i] = k}))

KeysBy(field) == [i \in DOMAIN data |-> OrUnknown(data[i], field)]
TermsOf(field) == [i \in DOMAIN data |-> OrZero(data[i], field)]

\* C19: every per-group average (avgConvFactor, avgCfStd, avgRIntensity,
\* avgPPPIntensity per type or category) equals that group's sum of the
\* measure divided by that group's own record count, and is 0 when the
\* count is 0
C19_AverageIsGroupSumOverGroupCount ==
  /\ activeModule = "fossilfuel" =>
       LET byType == FossilFuelAnalytics(data).byType
       IN \A j \in DOMAIN byType :
            byType[j].avgConvFactor =
              MeanOf(KeysBy("type"), TermsOf("convFactor"), byType[j].key)
  /\ activeModule = "attribute" =>
       \A catKey \in CategoryGroupings :
          LET groups == aggregateByCategory(data, catKey)
          IN \A j \in DOMAIN groups :
               /\ groups[j].avgConvFactor =
                    MeanOf(KeysBy(catKey), TermsOf("convFactor"), groups[j].category)
               /\ groups[j].avgCfStd =
                    MeanOf(KeysBy(catKey), TermsOf("cfStd"), groups[j].category)
  /\ activeModule = "fugitive" =>
       \A key \in CategoryGroupings :
          LET groups == aggregate(data, key)
          IN \A j \in DOMAIN groups :
               /\ groups[j].avgConvFactor =
                    MeanOf(KeysBy(key), TermsOf("convFactor"), groups[j].category)
               /\ groups[j].avgRIntensity =
                    MeanOf(KeysBy(key), TermsOf("rIntensity"), groups[j].category)
               /\ groups[j].avgPPPIntensity =
                    MeanOf(KeysBy(key), TermsOf("pppIntensity"), groups[j].category)

\* the ratio num / den of a group, 0 when den is 0
RatioOf(num, den) == IF den = Zero THEN Rat(0, 1) ELSE Div(num, den)

\* C20: each per-group derived ratio (the two efficiency ratios of a Scope 3
\* sub-category, the month-over-month growth of an Openness month, in per
\* cent) equals numeratorTotal / denominatorTotal of that group for every
\* non-zero denominator total, and equals 0 when the denominator total is 0
C20_RatioIsNumeratorOverDenominator ==
  status = "success" =>
    /\ activeModule = "scope3" =>
         LET a == Scope3Analytics(data)
         IN \A j \in DOMAIN a.efficiency :
              /\ a.efficiency[j].valuePerEFFuel =
                   RatioOf(a.bySubCategory[j].totalValue, a.bySubCategory[j].totalEFFuel)
              /\ a.efficiency[j].effuelPerQuantity =
                   RatioOf(a.bySubCategory[j].totalEFFuel, a.bySubCategory[j].totalQuantity)
    /\ activeModule = "openness" =>
         LET t == OpennessMonthlyTrends(data)
         IN \A i \in DOMAIN t : i > 1 =>
              /\ t[i].momPurchases =
                   RatioOf(Mul(Sub(t[i].rptPurchases, t[i - 1].rptPurchases), Num(100)),
                           t[i - 1].rptPurchases)
              /\ t[i].momSales =
                   RatioOf(Mul(Sub(t[i].rptSales, t[i - 1].rptSales), Num(100)),
                           t[i - 1].rptSales)

\* the record's own value entry is supplied: present and not null
Supplied(item, key) == ~IsNullish(Get(item, key))

\* C21: in the Energy module each normalized record's value equals the value
\* supplied by the API whenever one is supplied (a supplied 0 included) and
\* equals quantity x convFactor only when no value is supplied, with missing
\* quantity and convFactor defaulting to 0
C21_SuppliedValueIsKept ==
  activeModule = "energy" /\ status = "success" =>
    /\ Len(data) = Len(raw)
    /\ \A i \in DOMAIN raw :
         data[i].value =
           IF Supplied(raw[i], "value") THEN raw[i].value
           ELSE Mul(IF Supplied(raw[i], "quantity") THEN raw[i].quantity ELSE Zero,
                    IF Supplied(raw[i], "convFactor") THEN raw[i].convFactor ELSE Zero)

\* the widest row of a grid
Width(rows) ==
  IF rows = <<>> THEN 0
  ELSE CHOOSE w \in {Len(rows[r]) : r \in DOMAIN rows} : \A r \in DOMAIN rows : Len(rows[r]) <= w

\* column i of the permuted row is column perm[i] of row (a cell past the
\* end of a short row is undefined)
PermuteRow(row, perm) == [i \in DOMAIN perm |-> At(row, perm[i] - 1)]
PermuteColumns(rows, perm) == [r \in DOMAIN rows |-> PermuteRow(rows[r], perm)]

\* permutations of w columns: the reversal, the rotation by one, and the
\* exchanges of the first two and of the last two columns
ColumnPermutations(w) ==
  IF w < 2 THEN {[i \in 1..w |-> i]}
  ELSE { [i \in 1..w |-> w + 1 - i],
         [i \in 1..w |-> (i % w) + 1],
         [i \in 1..w |-> IF i = 1 THEN 2 ELSE IF i = 2 THEN 1 ELSE i],
         [i \in 1..w |-> IF i = w THEN w - 1 ELSE IF i = w - 1 THEN w ELSE i] }

\* no two columns of the header row are mapped to the same canonical key
KeysOnce(m, headerRow) ==
  \A i, j \in DOMAIN headerRow :
     i # j /\ mapHeader(m, headerRow[i]) # NoKey =>
       mapHeader(m, headerRow[i]) # mapHeader(m, headerRow[j])

\* the load of the grid with its columns permuted ends as the load of the
\* grid itself did
SameLoad(perm) ==
  LET result == onload(activeModule, PermuteColumns(raw, perm))
  IN /\ result.ok <=> status = "success"
     /\ result.ok => result.data = data

\* C22 (amended): in file-sourced mode, for every grid whose header row maps
\* no two columns to the same canonical key, applying one and the same
\* permutation to the columns of every row yields the same sequence of
\* canonical records (same keys, same values)
C22_ColumnOrderIsIrrelevant ==
  /\ activeModule \in FileModules
  /\ ~fresh
  /\ HasHeaderRow(activeModule, raw)
       => KeysOnce(activeModule, raw[HeaderRowOf(activeModule, raw) + 1])
  => \A perm \in ColumnPermutations(Width(raw)) : SameLoad(perm)

\* a successful Fairness load of a grid with two data rows, whose columns
\* the reversal does move
C22_Witness ==
  /\ activeModule = "fairness" /\ status = "success"
  /\ Len(data) = 2
  /\ KeysOnce("fairness", raw[HeaderIndex + 1])
  /\ PermuteColumns(raw, [i \in 1..Width(raw) |-> Width(raw) + 1 - i]) # raw

\* C22 (as stated): the same for every grid
C22_AsStated ==
  activeModule \in FileModules /\ ~fresh =>
    \A perm \in ColumnPermutations(Width(raw)) : SameLoad(perm)

\* the grid with each of its rows 0 to 3 replaced by row
ReplaceTop(rows, row) == [r \in DOMAIN rows |-> IF r <= 4 THEN row ELSE rows[r]]

\* what rows 0 to 3 may hold instead: nothing, the header labels, data
TopRows(m) == {BlankRow, HeaderRow(m), DataRowA(m)}

\* the canonical keys of the labels of a header row
KeysOfRow(m, headerRow) ==
  {mapHeader(m, headerRow[i]) : i \in DOMAIN headerRow} \ {NoKey}

\* C23: in the fixed-offset modules (Fairness, Fugitive, Inclusion,
\* Openness) the row at index 4 is always taken as the header row and
\* exactly the rows from index 5 on are treated as data rows: rows 0 to 3
\* never contribute labels or records, whatever they contain
C23_RowFourIsTheHeader ==
  activeModule \in FixedModules /\ ~fresh =>
    /\ status = "success" =>
         /\ Len(data) <= Len(raw) - 5
         /\ \A k \in DOMAIN data :
              DOMAIN data[k] \ {"monthYear"} = KeysOfRow(activeModule, raw[5])
    /\ \A top \in TopRows(activeModule) :
         LET result == onload(activeModule, ReplaceTop(raw, top))
         IN /\ result.ok <=> status = "success"
            /\ result.ok => result.data = data

\* a successful Fairness load of a grid whose row 3 holds header labels
\* too: the records have the keys of row 4, one more than row 3 offers
C23_Witness ==
  /\ activeModule = "fairness" /\ status = "success"
  /\ raw[4] = HeaderRowPartial("fairness")
  /\ raw[5] = HeaderRow("fairness")
  /\ Len(data) = 1
  /\ DOMAIN data[1] # KeysOfRow("fairness", raw[4])

\* the column (1-based) a record takes its key from: the last column of the
\* header row mapped to the key
ColumnOf(m, headerRow, key) ==
  CHOOSE i \in DOMAIN headerRow :
    /\ mapHeader(m, headerRow[i]) = key
    /\ \A j \in DOMAIN headerRow : mapHeader(m, headerRow[j]) = key => j <= i

\* the trimmed string form of a raw cell, the empty string for an absent one
TextOf(c) == IF IsNullish(c) \/ c = Empty THEN Empty ELSE Str(Trim(StringOf(c)))

\* C24: every value of a canonical record produced by a file load is a
\* number when its key is in the module's NumericFieldSet and otherwise the
\* trimmed string form of the raw cell, the empty string being used only
\* when the cell is absent (null, undefined or empty)
C24_ValuesAreNumbersOrTrimmedText ==
  activeModule \in FileModules /\ status = "success" =>
    LET h == HeaderRowOf(activeModule, raw)
        kept == ContentRowsAfter(raw, h)
    IN /\ Len(data) = Len(kept)
       /\ \A k \in DOMAIN data : \A key \in DOMAIN data[k] \ {"monthYear"} :
            IF key \in numericFields(activeModule) THEN IsNumber(data[k][key])
            ELSE data[k][key] =
                   TextOf(At(kept[k], ColumnOf(activeModule, raw[h + 1], key) - 1))

\* C25: when the backend's database query fails, every data endpoint
\* (/api/attribute-details, each /api/{module}, /api/esg-data/{dataType})
\* responds with an empty JSON array rather than with an error response
C25_FailedQueryGivesEmptyArray ==
  call # NoCall /\ call.outcome.failed => reply = JsonArray(<<>>)

\* the query a request for the filter value f has to carry: the value,
\* unless it is 'All' or empty
CurrentFilters(f) == IF f \in {"All", ""} THEN {} ELSE {<<"year", f>>}

StartsLoadWithFilters ==
  /\ activeModule' \in ApiModules /\ activeModule' # activeModule =>
        /\ Len(inflight') = 1
        /\ searchParams(inflight'[1]) = CurrentFilters(filters')
  /\ activeModule' \in ApiModules /\ activeModule' = activeModule /\ filters' # filters =>
        /\ Len(inflight') = Len(inflight) + 1
        /\ searchParams(inflight'[Len(inflight')]) = CurrentFilters(filters')

\* C26: every API-sourced module starts a load when it is mounted and again
\* each time a dashboard filter changes, and the request of that load
\* carries the current filter values, a filter equal to 'All' or empty
\* being omitted from the request
C26_MountAndFilterChangeStartALoad == [][StartsLoadWithFilters]_vars

\* C27: in the API-sourced modules isLoading is true in every state in which
\* at least one load request is still in flight, so that the Refresh
\* control, disabled exactly when isLoading, never starts a load that
\* overlaps another one
C27_LoadingWhileInFlight ==
  activeModule \in ApiModules /\ inflight # <<>> => isLoading

\* C28: in every file-sourced module, in every state reachable by any
\* sequence of uploads, successful or failing, the upload status 'success'
\* implies that the record collection is not empty
C28_SuccessImpliesRecords ==
  activeModule \in FileModules /\ status = "success" => data # <<>>

\* C28 witness: an upload has succeeded while another upload of the same
\* module is still being read, and the records shown are those of its file
C28_Witness ==
  /\ activeModule \in FileModules /\ status = "success" /\ inflight # <<>>
  /\ data # <<>> /\ data = onload(activeModule, raw).data

\* the canonical keys of the dictionary of module m
CanonicalKeys(m) == {fieldMapping(m)[i][2] : i \in DOMAIN fieldMapping(m)}

\* some label of the dictionary is in no row of the scanned window
ColumnMissing(m, rows) ==
  \E label \in Labels(m) :
     \A j \in 1..Len(rows) :
        j <= ScanLimit => \A i \in DOMAIN rows[j] : rows[j][i] # Word(label)

\* C29: in the scan-for-match modules (Scope 3, Diversity), after any
\* successful load every record contains every canonical key of the
\* module's FieldMapping, with a number under every NumericFieldSet key; a
\* column missing from the file is not dropped silently, it makes the load
\* fail
C29_ScanRecordsCarryEveryKey ==
  activeModule \in ScanModules /\ ~fresh =>
    /\ status = "success" =>
          \A i \in DOMAIN data :
             /\ CanonicalKeys(activeModule) \subseteq DOMAIN data[i]
             /\ \A key \in numericFields(activeModule) :
                   key \in DOMAIN data[i] /\ IsNumber(data[i][key])
    /\ ColumnMissing(activeModule, raw) => status = "error" /\ data = <<>>

\* C29 witness: a Scope 3 workbook whose first candidate header row lacks a
\* column and whose next row holds them all has loaded: its records carry
\* every key
C29_Witness ==
  /\ activeModule = "scope3" /\ status = "success" /\ data # <<>>
  /\ \E j \in DOMAIN raw :
        /\ hasSomeCol("scope3", raw[j]) /\ ~hasAllCols("scope3", raw[j])
        /\ findHeader("scope3", raw, 0) = j

\* the distinct values of a sequence in the order of their first occurrence
RECURSIVE DistinctInOrder(_)
DistinctInOrder(keys) ==
  IF keys = <<>> THEN <<>>
  ELSE LET before == DistinctInOrder(SubSeq(keys, 1, Len(keys) - 1))
           last == keys[Len(keys)]
       IN IF \E j \in DOMAIN before : before[j] = last THEN before ELSE Append(before, last)

\* C30: in Scope 3, computing topContributors leaves the untruncated
\* bySubCategory collection unchanged: it still contains every group, in
\* first-seen order, after the descending sort and the truncation to 5
C30_BySubCategoryKeepsFirstSeenOrder ==
  activeModule = "scope3" /\ status = "success" =>
    LET bySubCategory == Scope3Analytics(data).bySubCategory
    IN [j \in DOMAIN bySubCategory |-> bySubCategory[j].key] =
         DistinctInOrder([i \in DOMAIN data |-> Or(Get(data[i], "subCategory"), Unknown)])

\* C30 witness: Scope 3 shows more groups than the top view holds, and the
\* sort has put the top view in another order than the first-seen one
C30_Witness ==
  /\ activeModule = "scope3" /\ status = "success"
  /\ Len(Scope3Analytics(data).bySubCategory) > TopContributors
  /\ Scope3Analytics(data).topContributors #
       SubSeq(Scope3Analytics(data).bySubCategory, 1, TopContributors)

====
